---- MODULE Spec2Model ----
(***************************************************************************)
(* Model of the time converter (src/app.js): format detection and parsing  *)
(* (FORMATS, parseTimestamp and the per-format parsers), the timezone      *)
(* offset computation (getPartsInTz, getOffsetMinutes) and the output      *)
(* formatters.                                                             *)
(*                                                                         *)
(* Text is a TLA+ string; a character is a string of length 1.  A time     *)
(* value (milliseconds since the epoch, up to 8.64e15 in magnitude) does   *)
(* not fit a 32-bit integer, so it is kept as a record                     *)
(*     [day |-> floor(t / 86400000), ms |-> t mod 86400000]                *)
(* and all arithmetic on time values is done on that pair.  NaN is the     *)
(* invalid time value and Null the parsers' null.                          *)
(***************************************************************************)
EXTENDS Integers, Sequences, FiniteSets, TLC

VARIABLES
    input,            \* input.value, the text handed to parseTimestamp
    shape,            \* how input was written: its kind and the fields it spells out
    dateFormat,       \* 'us' | 'eu'
    hostOffset,       \* UTC offset, in minutes, of the host's local timezone
    now,              \* the wall clock, a time value
    result,           \* what parseTimestamp(input) returned (None before the call)
    currentDate,      \* the instant on display
    currentTimezone,  \* the selected timezone
    outputs,          \* the rendered outputs (None before updateOutputs)
    allTimezones,     \* the zone catalog, in the order populateTimezones left it
    tzQuery,          \* the text of the last 'input' event of tzSearch
    tzSearchValue,    \* tzSearch.value
    tzItems,          \* tzList.children, as the zones of the rendered items
    tzFocused,        \* tzSearch has the focus
    closePending,     \* a closeTzDropdown scheduled by 'blur' is pending
    filteredTimezones, \* the dropdown's list
    tzOpen,           \* tzList carries the class 'open'
    highlightedIndex, \* index of the highlighted list item, -1 for none
    timers,           \* the detection runs scheduled with setTimeout and still pending
    debounceTimer,    \* id kept of the last detection run scheduled (0 for null)
    relativeTimer,    \* id of a periodic refresh (Null: none registered)
    timerSeq,         \* number of timers created so far
    lastRun,          \* the detection run that fired last (None before any)
    detected,         \* detectedEl.textContent, the label of the detected format
    feedback          \* the text note of the feedback line

searchVars ==
    <<allTimezones, tzQuery, tzSearchValue, tzItems, tzFocused, closePending,
      filteredTimezones, tzOpen, highlightedIndex>>

timerVars == <<timers, debounceTimer, relativeTimer, timerSeq, lastRun>>

labelVars == <<detected, feedback>>

vars ==
    <<input, shape, dateFormat, hostOffset, now, result, currentDate, currentTimezone,
      outputs, searchVars, timerVars, labelVars>>

(***************************************************************************)
(* Strings                                                                 *)
(***************************************************************************)

Digits == {"0", "1", "2", "3", "4", "5", "6", "7", "8", "9"}
LowerAlphabet == "abcdefghijklmnopqrstuvwxyz"
UpperAlphabet == "ABCDEFGHIJKLMNOPQRSTUVWXYZ"
LowerLetters == {SubSeq(LowerAlphabet, i, i) : i \in 1..26}
UpperLetters == {SubSeq(UpperAlphabet, i, i) : i \in 1..26}
Letters == LowerLetters \cup UpperLetters
\* The characters \s matches and trim() strips, among those the inputs use.
WhiteSpace == {" ", "\t"}

Char(s, i) == SubSeq(s, i, i)

\* String.prototype.slice(a, b) with 0 <= a <= b: 0-based, b exclusive.
Slice(s, a, b) == SubSeq(s, a + 1, IF b < Len(s) THEN b ELSE Len(s))

DigitValue(c) == CHOOSE v \in 0..9 : Char("0123456789", v + 1) = c

ToLowerChar(c) ==
    IF c \in UpperLetters
    THEN Char(LowerAlphabet, CHOOSE i \in 1..26 : Char(UpperAlphabet, i) = c)
    ELSE c

ToUpperChar(c) ==
    IF c \in LowerLetters
    THEN Char(UpperAlphabet, CHOOSE i \in 1..26 : Char(LowerAlphabet, i) = c)
    ELSE c

RECURSIVE ToLowerCase(_)
ToLowerCase(s) ==
    IF s = "" THEN "" ELSE ToLowerChar(Char(s, 1)) \o ToLowerCase(SubSeq(s, 2, Len(s)))

RECURSIVE ToUpperCase(_)
ToUpperCase(s) ==
    IF s = "" THEN "" ELSE ToUpperChar(Char(s, 1)) \o ToUpperCase(SubSeq(s, 2, Len(s)))

RECURSIVE TrimStart(_)
TrimStart(s) ==
    IF s # "" /\ Char(s, 1) \in WhiteSpace THEN TrimStart(SubSeq(s, 2, Len(s))) ELSE s

RECURSIVE TrimEnd(_)
TrimEnd(s) ==
    IF s # "" /\ Char(s, Len(s)) \in WhiteSpace THEN TrimEnd(SubSeq(s, 1, Len(s) - 1)) ELSE s

Trim(s) == TrimEnd(TrimStart(s))

\* String.prototype.includes(sub)
Includes(s, sub) ==
    \E i \in 1..(Len(s) - Len(sub) + 1) : SubSeq(s, i, i + Len(sub) - 1) = sub

\* The 1-based index of the first occurrence of character c in s, 0 if none.
IndexOfChar(s, c) ==
    IF \E i \in 1..Len(s) : Char(s, i) = c
    THEN CHOOSE i \in 1..Len(s) : Char(s, i) = c /\ \A j \in 1..(i - 1) : Char(s, j) # c
    ELSE 0

\* String.prototype.split(c) for a one-character separator.
RECURSIVE Split(_, _)
Split(s, c) ==
    LET i == IndexOfChar(s, c)
    IN  IF i = 0 THEN <<s>>
        ELSE <<SubSeq(s, 1, i - 1)>> \o Split(SubSeq(s, i + 1, Len(s)), c)

\* String.prototype.replace(c, r) for a string pattern c of one character:
\* only the first occurrence is replaced.
ReplaceFirst(s, c, r) ==
    LET i == IndexOfChar(s, c)
    IN  IF i = 0 THEN s ELSE SubSeq(s, 1, i - 1) \o r \o SubSeq(s, i + 1, Len(s))

\* String(n) for an integer n.
RECURSIVE NatToString(_)
NatToString(n) ==
    IF n < 10 THEN Char("0123456789", n + 1)
    ELSE NatToString(n \div 10) \o Char("0123456789", (n % 10) + 1)

IntToString(n) == IF n < 0 THEN "-" \o NatToString(0 - n) ELSE NatToString(n)

\* String.prototype.padStart(n, '0')
RECURSIVE PadStart(_, _)
PadStart(s, n) == IF Len(s) >= n THEN s ELSE PadStart("0" \o s, n)

\* The longest prefix of s made of digits.
RECURSIVE DigitPrefix(_)
DigitPrefix(s) ==
    IF s # "" /\ Char(s, 1) \in Digits
    THEN Char(s, 1) \o DigitPrefix(SubSeq(s, 2, Len(s)))
    ELSE ""

\* s without its leading run of digits.
RECURSIVE TrimDigits(_)
TrimDigits(s) ==
    IF s # "" /\ Char(s, 1) \in Digits THEN TrimDigits(SubSeq(s, 2, Len(s))) ELSE s

RECURSIVE DigitsValue(_)
DigitsValue(s) ==
    IF s = "" THEN 0
    ELSE 10 * DigitsValue(SubSeq(s, 1, Len(s) - 1)) + DigitValue(Char(s, Len(s)))

\* parseInt(s, 10) where the value is a calendar field (a few digits): leading
\* white space, an optional sign, then the longest run of digits; "NaN" if the
\* run is empty.
ParseInt(s) ==
    LET t == TrimStart(s)
        neg == t # "" /\ Char(t, 1) = "-"
        u == IF t # "" /\ Char(t, 1) \in {"-", "+"} THEN SubSeq(t, 2, Len(t)) ELSE t
        d == DigitPrefix(u)
    IN  IF d = "" THEN [nan |-> TRUE]
        ELSE IF neg THEN 0 - DigitsValue(d) ELSE DigitsValue(d)

(***************************************************************************)
(* Regular expressions: the shapes the FORMATS recognizers use.            *)
(***************************************************************************)

\* The upper bound of an unbounded repetition ({n,}, + and *).
Inf == 0 - 1

Cls(S) == [t |-> "cls", c |-> S]
Seq_(a) == [t |-> "seq", a |-> a]
Alt(a) == [t |-> "alt", a |-> a]
Rep(r, lo, hi) == [t |-> "rep", r |-> r, lo |-> lo, hi |-> hi]
Opt(r) == Rep(r, 0, 1)
Ch(c) == Cls({c})
\* A letter under the i flag.
ChI(c) == Cls({ToLowerChar(c), ToUpperChar(c)})
D(n) == Rep(Cls(Digits), n, n)
D12 == Rep(Cls(Digits), 1, 2)
S1 == Rep(Cls(WhiteSpace), 1, Inf)
S0 == Rep(Cls(WhiteSpace), 0, Inf)
RECURSIVE WordI(_)
WordI(w) == IF w = "" THEN <<>> ELSE <<ChI(Char(w, 1))>> \o WordI(SubSeq(w, 2, Len(w)))

RECURSIVE Ends(_, _, _)
RECURSIVE SeqEnds(_, _, _, _)
RECURSIVE RepEnds(_, _, _, _, _)

\* The positions a match of re can end at (the index of the next character to
\* read) when it starts at one of the positions P of s.
Ends(re, s, P) ==
    IF P = {} THEN {}
    ELSE CASE re.t = "cls" -> {p + 1 : p \in {q \in P : q <= Len(s) /\ Char(s, q) \in re.c}}
           [] re.t = "seq" -> SeqEnds(re.a, 1, s, P)
           [] re.t = "alt" -> UNION {Ends(re.a[i], s, P) : i \in 1..Len(re.a)}
           [] re.t = "rep" -> RepEnds(re.r, re.lo, re.hi, s, P)

SeqEnds(a, i, s, P) ==
    IF i > Len(a) THEN P ELSE SeqEnds(a, i + 1, s, Ends(a[i], s, P))

RepEnds(r, lo, hi, s, P) ==
    IF P = {} THEN {}
    ELSE IF hi = 0 THEN P
    ELSE (IF lo <= 0 THEN P ELSE {})
         \cup RepEnds(r, IF lo > 0 THEN lo - 1 ELSE 0,
                      IF hi = Inf THEN Inf ELSE hi - 1, s, Ends(r, s, P))

\* RegExp.prototype.test for a pattern anchored as ^re$.
Test(re, s) == (Len(s) + 1) \in Ends(re, s, {1})

(***************************************************************************)
(* Time values and the ECMAScript date arithmetic behind Date.UTC, the     *)
(* getUTC* accessors and new Date(...)                                     *)
(***************************************************************************)

MsPerDay == 86400000

\* The time value NaN (an invalid Date), null, a number beyond every time
\* value, and the absence of a value.
NaN == [nan |-> TRUE]
Null == [null |-> TRUE]
Huge == [huge |-> TRUE]
None == [none |-> TRUE]

TV(d, m) == [day |-> d + (m \div MsPerDay), ms |-> m % MsPerDay]

\* d && !isNaN(d.getTime())
IsTV(t) == DOMAIN t = {"day", "ms"}

\* t + n for a number of milliseconds n that fits a machine word.
TVAdd(t, n) == IF t = NaN THEN NaN ELSE TV(t.day, t.ms + n)

TVNeg(t) == IF t = NaN THEN NaN ELSE TV(0 - t.day, 0 - t.ms)

TVLess(a, b) == a.day < b.day \/ (a.day = b.day /\ a.ms < b.ms)

\* TimeClip: a time value is at most 8.64e15 ms (100,000,000 days) from the epoch.
TimeClip(t) ==
    IF t = NaN THEN NaN
    ELSE IF t.day < 0 - 100000000 \/ t.day > 100000000
            \/ (t.day = 100000000 /\ t.ms > 0)
         THEN NaN
         ELSE t

\* The number a run of decimal digits denotes, as a time value; Huge as soon
\* as it is beyond every time value (so that the pair never overflows).
\* 10 * t + d for a non-negative t and a digit d.
TVTimes10Plus(t, d) ==
    IF t = Huge THEN Huge
    ELSE IF t.day > 100000000 THEN Huge
    ELSE TV(10 * t.day, 10 * t.ms + d)

RECURSIVE BigFromDigits(_)
BigFromDigits(s) ==
    IF s = "" THEN TV(0, 0)
    ELSE TVTimes10Plus(BigFromDigits(SubSeq(s, 1, Len(s) - 1)), DigitValue(Char(s, Len(s))))

\* -t for a number that may be Huge.
BigNeg(t) == IF t = Huge THEN Huge ELSE TV(0 - t.day, 0 - t.ms)

\* 1000 * t
TVTimes1000(t) ==
    IF t = Huge THEN Huge
    ELSE IF t.day < 0 THEN BigNeg(TVTimes10Plus(TVTimes10Plus(TVTimes10Plus(BigNeg(t), 0), 0), 0))
    ELSE TVTimes10Plus(TVTimes10Plus(TVTimes10Plus(t, 0), 0), 0)

\* The decimal digits of the number q * unit + r, for q >= 0 and 0 <= r < unit.
RECURSIVE WideToDigits(_, _, _)
WideToDigits(q, r, unit) ==
    LET low == (q % 10) * unit + r
        last == Char("0123456789", (low % 10) + 1)
    IN  IF q \div 10 = 0 /\ low \div 10 = 0 THEN last
        ELSE WideToDigits(q \div 10, low \div 10, unit) \o last

\* String(n) for the integer n = q * unit + r with 0 <= r < unit.
WideToString(q, r, unit) ==
    IF q >= 0 THEN WideToDigits(q, r, unit)
    ELSE IF r = 0 THEN "-" \o WideToDigits(0 - q, 0, unit)
    ELSE "-" \o WideToDigits(0 - q - 1, unit - r, unit)

\* parseInt(s, 10) where the value may be as large as a time value: an optional
\* '-' and digits (the Unix recognizers let nothing else through).
ParseIntBig(s) ==
    LET neg == s # "" /\ Char(s, 1) = "-"
        v == BigFromDigits(DigitPrefix(IF neg THEN SubSeq(s, 2, Len(s)) ELSE s))
    IN  IF neg THEN BigNeg(v) ELSE v

\* new Date(value) for a number: TimeClip; a number beyond the range gives NaN.
NewDateFromNumber(v) == IF v = Huge THEN NaN ELSE TimeClip(v)

InLeapYear(y) == (y % 4 = 0 /\ y % 100 # 0) \/ y % 400 = 0

\* DayFromYear: the day number of 1 January of year y.
DayFromYear(y) ==
    365 * (y - 1970) + ((y - 1969) \div 4) - ((y - 1901) \div 100) + ((y - 1601) \div 400)

MonthStartDay == <<0, 31, 59, 90, 120, 151, 181, 212, 243, 273, 304, 334>>

\* The day within its year of the first of month m (0-based).
DayWithinYear(y, m) == MonthStartDay[m + 1] + (IF m >= 2 /\ InLeapYear(y) THEN 1 ELSE 0)

DaysInMonth(y, m) ==
    IF m = 1 THEN (IF InLeapYear(y) THEN 29 ELSE 28)
    ELSE IF m \in {3, 5, 8, 10} THEN 30 ELSE 31

\* MakeDay(year, month, date): month is 0-based and may overflow, date may too.
MakeDay(year, month, dt) ==
    LET ym == year + (month \div 12)
        mn == month % 12
    IN  DayFromYear(ym) + DayWithinYear(ym, mn) + dt - 1

\* MakeTime(hour, min, sec, ms)
MakeTime(h, mi, s, ms) == h * 3600000 + mi * 60000 + s * 1000 + ms

\* MakeDate(day, time)
MakeDate(day, time) == TV(day, time)

\* The instant of civil fields read in UTC (year as written, month 1-based).
CivilUTC(y, mo, d, h, mi, s, ms) ==
    TimeClip(MakeDate(MakeDay(y, mo - 1, d), MakeTime(h, mi, s, ms)))

\* Date.UTC(year, month, date, hours, minutes, seconds): a year in 0..99 means
\* 1900 + year (MakeFullYear).
DateUTC(year, month, dt, h, mi, s) ==
    LET yr == IF year >= 0 /\ year <= 99 THEN 1900 + year ELSE year
    IN  TimeClip(MakeDate(MakeDay(yr, month, dt), MakeTime(h, mi, s, 0)))

\* YearFromTime, for a day number.
YearFromDay(day) ==
    LET est == 1970 + (day \div 146097) * 400 + ((day % 146097) \div 365)
    IN  CHOOSE y \in (est - 1)..(est + 1) : DayFromYear(y) <= day /\ day < DayFromYear(y + 1)

\* MonthFromTime (0-based), for a day number.
MonthFromDay(day) ==
    LET y == YearFromDay(day)
        n == day - DayFromYear(y)
    IN  CHOOSE m \in 0..11 :
            /\ DayWithinYear(y, m) <= n
            /\ n < DayWithinYear(y, m) + DaysInMonth(y, m)

\* DateFromTime (1-based), for a day number.
DateFromDay(day) ==
    LET y == YearFromDay(day)
    IN  day - DayFromYear(y) - DayWithinYear(y, MonthFromDay(day)) + 1

\* WeekDay: 0 is Sunday; 1 January 1970 was a Thursday.
WeekDay(day) == (day + 4) % 7

\* The civil fields of a time value read in UTC: getUTCFullYear, getUTCMonth() + 1,
\* getUTCDate, getUTCHours, getUTCMinutes, getUTCSeconds, getUTCMilliseconds.
UTCFields(t) ==
    [year |-> YearFromDay(t.day), month |-> MonthFromDay(t.day) + 1,
     day |-> DateFromDay(t.day), hour |-> t.ms \div 3600000,
     minute |-> (t.ms \div 60000) % 60, second |-> (t.ms \div 1000) % 60,
     ms |-> t.ms % 1000]


(***************************************************************************)
(* new Date(string): the ECMAScript date-time string format, and the       *)
(* engines' common fallback for RFC 2822 and named-month strings.          *)
(***************************************************************************)

\* YYYY-MM-DDTHH:mm[:ss[.s+]][Z|+HH:mm|-HH:mm]
IsoDateTimeRe ==
    Seq_(<<D(4), Ch("-"), D(2), Ch("-"), D(2), Ch("T"), D(2), Ch(":"), D(2),
           Opt(Seq_(<<Ch(":"), D(2), Opt(Seq_(<<Ch("."), Rep(Cls(Digits), 1, Inf)>>))>>)),
           Opt(Alt(<<Ch("Z"), Seq_(<<Cls({"+", "-"}), D(2), Ch(":"), D(2)>>)>>))>>)

\* The instant of civil fields read at a UTC offset of off minutes; NaN when a
\* field is out of range.  A day of 29..31 beyond the month's length is accepted
\* and rolls over, as in V8 (other engines give NaN there).
CivilAt(y, mo, d, h, mi, sec, ms, off) ==
    IF mo < 1 \/ mo > 12 \/ d < 1 \/ d > 31 \/ mi > 59 \/ sec > 59
       \/ h > 24 \/ (h = 24 /\ (mi > 0 \/ sec > 0 \/ ms > 0))
    THEN NaN
    ELSE TVAdd(CivilUTC(y, mo, d, h, mi, sec, ms), 0 - off * 60000)

\* new Date(s) for s of the date-time string format.  A string with no offset
\* is local time.
\* The date-time s with seconds sec, fraction digits frac and zone designator
\* zone ("", "Z" or +HH:mm / -HH:mm).
IsoInstant(s, sec, frac, zone, host) ==
    LET offH == IF Len(zone) = 6 THEN DigitsValue(Slice(zone, 1, 3)) ELSE 0
        offM == IF Len(zone) = 6 THEN DigitsValue(Slice(zone, 4, 6)) ELSE 0
        off == IF zone = "" THEN host
               ELSE IF zone = "Z" THEN 0
               ELSE IF Char(zone, 1) = "-" THEN 0 - (offH * 60 + offM)
               ELSE offH * 60 + offM
    IN  IF offH > 23 \/ offM > 59 THEN NaN
        ELSE CivilAt(DigitsValue(Slice(s, 0, 4)), DigitsValue(Slice(s, 5, 7)),
                     DigitsValue(Slice(s, 8, 10)), DigitsValue(Slice(s, 11, 13)),
                     DigitsValue(Slice(s, 14, 16)), sec,
                     DigitsValue(Slice(frac \o "000", 0, 3)), off)

\* The part of a date-time after its seconds: an optional fraction, then the zone.
IsoFraction(s, sec, rest, host) ==
    IF rest # "" /\ Char(rest, 1) = "."
    THEN IsoInstant(s, sec, DigitPrefix(SubSeq(rest, 2, Len(rest))),
                    TrimDigits(SubSeq(rest, 2, Len(rest))), host)
    ELSE IsoInstant(s, sec, "", rest, host)

\* The part of a date-time after HH:mm: optional seconds, then the rest.
IsoSeconds(s, rest, host) ==
    IF rest # "" /\ Char(rest, 1) = ":"
    THEN IsoFraction(s, DigitsValue(Slice(rest, 1, 3)), SubSeq(rest, 4, Len(rest)), host)
    ELSE IsoFraction(s, 0, rest, host)

DateParseISO(s, host) == IsoSeconds(s, SubSeq(s, 17, Len(s)), host)

MonthNames ==
    <<"jan", "feb", "mar", "apr", "may", "jun", "jul", "aug", "sep", "oct", "nov", "dec">>

\* The zone names the fallback parser knows, with their offsets in minutes.
ZoneNames ==
    [utc |-> 0, ut |-> 0, gmt |-> 0, z |-> 0, est |-> 0 - 300, edt |-> 0 - 240,
     cst |-> 0 - 360, cdt |-> 0 - 300, mst |-> 0 - 420, mdt |-> 0 - 360,
     pst |-> 0 - 480, pdt |-> 0 - 420]

\* The maximal runs of characters other than white space and commas.
RECURSIVE Tokens(_, _)
Tokens(s, cur) ==
    IF s = "" THEN (IF cur = "" THEN <<>> ELSE <<cur>>)
    ELSE IF Char(s, 1) \in WhiteSpace \cup {","}
         THEN (IF cur = "" THEN <<>> ELSE <<cur>>) \o Tokens(SubSeq(s, 2, Len(s)), "")
         ELSE Tokens(SubSeq(s, 2, Len(s)), cur \o Char(s, 1))

LegacyStart ==
    [day |-> 0, month |-> 0, year |-> 0 - 1, h |-> 0, mi |-> 0, sec |-> 0, hasTime |-> FALSE,
     mer |-> "", zoned |-> FALSE, zone |-> 0, bad |-> FALSE]

\* One token of the fallback parser: a month name (by its first three letters),
\* AM/PM, a zone name, a number (the day, then the year), a time, a numeric
\* zone.  An unknown word is skipped before the first number and an error
\* after it.
LegacyToken(a, tok) ==
    LET w == ToLowerCase(tok)
    IN  IF Test(Rep(Cls(Letters), 1, Inf), tok)
        THEN IF Len(w) >= 3 /\ \E i \in 1..12 : MonthNames[i] = SubSeq(w, 1, 3)
             THEN [a EXCEPT !.month = CHOOSE i \in 1..12 : MonthNames[i] = SubSeq(w, 1, 3)]
             ELSE IF w \in {"am", "pm"} THEN [a EXCEPT !.mer = w]
             ELSE IF w \in DOMAIN ZoneNames
                  THEN [a EXCEPT !.zoned = TRUE, !.zone = ZoneNames[w]]
             ELSE IF a.day = 0 THEN a
             ELSE [a EXCEPT !.bad = TRUE]
        ELSE IF Test(Rep(Cls(Digits), 1, 4), tok)
        THEN IF a.day = 0 THEN [a EXCEPT !.day = DigitsValue(tok)]
             ELSE IF a.year < 0 THEN [a EXCEPT !.year = DigitsValue(tok)]
             ELSE [a EXCEPT !.bad = TRUE]
        ELSE IF Test(Seq_(<<D12, Ch(":"), D(2), Opt(Seq_(<<Ch(":"), D(2)>>))>>), tok)
        THEN LET p == Split(tok, ":")
             IN  [a EXCEPT !.hasTime = TRUE, !.h = DigitsValue(p[1]),
                           !.mi = DigitsValue(p[2]),
                           !.sec = IF Len(p) > 2 THEN DigitsValue(p[3]) ELSE 0]
        ELSE IF Test(Seq_(<<Cls({"+", "-"}), D(4)>>), tok)
        THEN LET m == DigitsValue(Slice(tok, 1, 3)) * 60 + DigitsValue(Slice(tok, 3, 5))
             IN  [a EXCEPT !.zoned = TRUE, !.zone = IF Char(tok, 1) = "-" THEN 0 - m ELSE m]
        ELSE [a EXCEPT !.bad = TRUE]

RECURSIVE LegacyFold(_, _, _)
LegacyFold(a, toks, i) ==
    IF i > Len(toks) THEN a ELSE LegacyFold(LegacyToken(a, toks[i]), toks, i + 1)

\* new Date(s) for a string that is not of the date-time string format: day,
\* named month, year, an optional time and an optional zone, in any order.  With
\* no zone the fields are local time.
LegacyDate(a, host) ==
    LET h == IF a.mer = "pm" /\ a.h # 12 THEN a.h + 12
             ELSE IF a.mer = "am" /\ a.h = 12 THEN 0 ELSE a.h
        yr == IF a.year < 50 THEN 2000 + a.year
              ELSE IF a.year < 100 THEN 1900 + a.year ELSE a.year
    IN  IF a.bad \/ a.day = 0 \/ a.month = 0 \/ a.year < 0 THEN NaN
        ELSE IF a.mer # "" /\ (a.h < 1 \/ a.h > 12) THEN NaN
        ELSE IF h > 23 THEN NaN
        ELSE CivilAt(yr, a.month, a.day, h, a.mi, a.sec, 0,
                     IF a.zoned THEN a.zone ELSE host)

DateParseLegacy(s, host) == LegacyDate(LegacyFold(LegacyStart, Tokens(s, ""), 1), host)

\* new Date(s) for a string s, on a host whose local time is host minutes
\* ahead of UTC.
DateParse(s, host) ==
    IF Test(IsoDateTimeRe, s) THEN DateParseISO(s, host) ELSE DateParseLegacy(s, host)


(***************************************************************************)
(* Parsing: FORMATS, parseTimestamp and the parsers                        *)
(***************************************************************************)

\* (\s+\d{1,2}:\d{2}(:\d{2})?) without the leading white space
TimeRe == Seq_(<<D12, Ch(":"), D(2), Opt(Seq_(<<Ch(":"), D(2)>>))>>)

\* (AM|PM) under the i flag
MeridiemRe == Alt(<<Seq_(WordI("AM")), Seq_(WordI("PM"))>>)

\* The recognizers of FORMATS, each anchored ^...$.
RelativeRe ==
    Alt(<<Seq_(WordI("now")), Seq_(WordI("today")), Seq_(WordI("yesterday")),
          Seq_(WordI("tomorrow"))>>)
\* The millisecond recognizer with its lower bound off by one: /^-?\d{14,}$/.
UnixMsRe_FourteenDigits == Seq_(<<Opt(Ch("-")), Rep(Cls(Digits), 14, Inf)>>)
UnixMsRe == Seq_(<<Opt(Ch("-")), Rep(Cls(Digits), 13, Inf)>>)
UnixSRe == Seq_(<<Opt(Ch("-")), Rep(Cls(Digits), 1, 12)>>)
ISORe ==
    Seq_(<<D(4), Ch("-"), D(2), Ch("-"), D(2), ChI("T"), D(2), Ch(":"), D(2),
           Opt(Seq_(<<Ch(":"), D(2), Opt(Seq_(<<Ch("."), Rep(Cls(Digits), 1, Inf)>>))>>)),
           Opt(Alt(<<ChI("Z"), Seq_(<<Cls({"+", "-"}), D(2), Ch(":"), D(2)>>)>>))>>)
CompactISORe == Seq_(<<D(8), Ch("T"), D(6)>>)
RFC2822Re ==
    Seq_(<<Rep(Cls(Letters), 3, 3), Opt(Ch(",")), S1, D12, S1, Rep(Cls(Letters), 3, 3), S1,
           D(4), S1, D(2), Ch(":"), D(2), Opt(Seq_(<<Ch(":"), D(2)>>)), S0,
           Opt(Alt(<<Seq_(<<Cls({"+", "-"}), D(4)>>), Rep(Cls(UpperLetters), 2, 4)>>))>>)
SQLRe ==
    Seq_(<<D(4), Ch("-"), D(2), Ch("-"), D(2), S1, D(2), Ch(":"), D(2),
           Opt(Seq_(<<Ch(":"), D(2),
                      Opt(Seq_(<<Cls({".", ","}), Rep(Cls(Digits), 1, Inf)>>))>>))>>)
DateRe == Seq_(<<D(4), Ch("-"), D(2), Ch("-"), D(2)>>)
CompactDateRe == D(8)
SlashDateRe == Seq_(<<D12, Ch("/"), D12, Ch("/"), D(4)>>)
SlashDateTimeRe == Seq_(<<D12, Ch("/"), D12, Ch("/"), D(4), S1, TimeRe>>)
SlashYMDRe == Seq_(<<D(4), Ch("/"), D12, Ch("/"), D12, Opt(Seq_(<<S1, TimeRe>>))>>)
DotDateRe == Seq_(<<D12, Ch("."), D12, Ch("."), D(4), Opt(Seq_(<<S1, TimeRe>>))>>)
DashDMYRe == Seq_(<<D12, Ch("-"), D12, Ch("-"), D(4), Opt(Seq_(<<S1, TimeRe>>))>>)
DayMonYearRe == Seq_(<<D12, S1, Rep(Cls(Letters), 3, Inf), S1, D(4)>>)
LocaleDateRe ==
    Seq_(<<Rep(Cls(Letters), 3, Inf), S1, D12, Opt(Ch(",")), S1, D(4),
           Opt(Seq_(<<S1, TimeRe, S0, Opt(MeridiemRe)>>))>>)
TimeOnlyRe == Seq_(<<TimeRe, S0, Opt(MeridiemRe)>>)

\* The FORMATS list as it is when the script has loaded (dateFormat is 'us' then).
FORMATS ==
    <<[name |-> "Relative", test |-> RelativeRe, parse |-> "parseRelativeInput"],
      [name |-> "Unix (ms)", test |-> UnixMsRe, parse |-> "unixMs"],
      [name |-> "Unix (s)", test |-> UnixSRe, parse |-> "unixS"],
      [name |-> "ISO 8601", test |-> ISORe, parse |-> "parseISO"],
      [name |-> "Compact ISO 8601", test |-> CompactISORe, parse |-> "parseCompactISO"],
      [name |-> "RFC 2822", test |-> RFC2822Re, parse |-> "parseRFC2822"],
      [name |-> "SQL / Log datetime", test |-> SQLRe, parse |-> "parseSQLDatetime"],
      [name |-> "Date (YYYY-MM-DD)", test |-> DateRe, parse |-> "dateOnly"],
      [name |-> "Date (YYYYMMDD)", test |-> CompactDateRe, parse |-> "parseCompactDate"],
      [name |-> "Date (MM/DD/YYYY)", test |-> SlashDateRe, parse |-> "parseSlashDate"],
      [name |-> "Datetime (MM/DD/YYYY HH:mm)", test |-> SlashDateTimeRe,
       parse |-> "parseSlashDateTime"],
      [name |-> "Date (YYYY/MM/DD)", test |-> SlashYMDRe, parse |-> "parseSlashYMD"],
      [name |-> "Date (DD.MM.YYYY)", test |-> DotDateRe, parse |-> "parseDotDate"],
      [name |-> "Date (DD-MM-YYYY)", test |-> DashDMYRe, parse |-> "parseDashDMY"],
      [name |-> "Date (DD Mon YYYY)", test |-> DayMonYearRe, parse |-> "dayMonYear"],
      [name |-> "Date (Mon DD, YYYY)", test |-> LocaleDateRe, parse |-> "parseLocaleDate"],
      [name |-> "Time only", test |-> TimeOnlyRe, parse |-> "parseTimeOnly"]>>

\* A parser's return value: null where the code returns null for an invalid Date.
OrNull(d) == IF d = NaN THEN Null ELSE d

parseRelativeInput(s, nowv) ==
    LET keyword == Trim(ToLowerCase(s))
    IN  IF keyword = "now" \/ keyword = "today" THEN nowv
        ELSE IF keyword = "yesterday" THEN TVAdd(nowv, 0 - MsPerDay)
        ELSE IF keyword = "tomorrow" THEN TVAdd(nowv, MsPerDay)
        ELSE Null

\* (s) => new Date(parseInt(s, 10))
parseUnixMs(s) == NewDateFromNumber(ParseIntBig(s))

\* (s) => new Date(parseInt(s, 10) * 1000)
parseUnixS(s) == NewDateFromNumber(TVTimes1000(ParseIntBig(s)))

\* /Z|[+-]\d{2}:\d{2}$/i.test(s)
HasOffset(s) ==
    \/ Includes(s, "Z")
    \/ Includes(s, "z")
    \/ /\ Len(s) >= 6
       /\ Test(Seq_(<<Cls({"+", "-"}), D(2), Ch(":"), D(2)>>), SubSeq(s, Len(s) - 5, Len(s)))

parseISO(s, host) ==
    LET str == IF HasOffset(s) THEN s ELSE s \o "Z"
    IN  OrNull(DateParse(str, host))

parseCompactISO(s, host) ==
    LET iso == Slice(s, 0, 4) \o "-" \o Slice(s, 4, 6) \o "-" \o Slice(s, 6, 8) \o "T"
               \o Slice(s, 9, 11) \o ":" \o Slice(s, 11, 13) \o ":" \o Slice(s, 13, 15) \o "Z"
    IN  OrNull(DateParse(iso, host))

parseCompactDate(s, host) ==
    LET iso == Slice(s, 0, 4) \o "-" \o Slice(s, 4, 6) \o "-" \o Slice(s, 6, 8)
               \o "T00:00:00Z"
    IN  OrNull(DateParse(iso, host))

parseSQLDatetime(s, host) ==
    LET normalized == ReplaceFirst(ReplaceFirst(s, ",", "."), " ", "T") \o "Z"
    IN  OrNull(DateParse(normalized, host))

parseRFC2822(s, host) == OrNull(DateParse(s, host))

\* (s) => new Date(s + 'T00:00:00Z')
parseDateOnly(s, host) == DateParse(s \o "T00:00:00Z", host)

\* if (month < 1 || month > 12 || day < 1 || day > 31) return null;
\* const d = new Date(Date.UTC(year, month - 1, day, hour, min, sec));
\* return isNaN(d.getTime()) ? null : d;
CheckedUTC_MonthLength(year, month, day, hour, min, sec) ==
    IF month < 1 \/ month > 12 \/ day < 1 \/ day > DaysInMonth(year, month - 1) THEN Null
    ELSE OrNull(DateUTC(year, month - 1, day, hour, min, sec))
CheckedUTC(year, month, day, hour, min, sec) ==
    IF month < 1 \/ month > 12 \/ day < 1 \/ day > 31 THEN Null
    ELSE OrNull(DateUTC(year, month - 1, day, hour, min, sec))

\* The month is the group dateFormat says: the first under 'us', else the second.
SlashParts(parts, df) ==
    CheckedUTC(ParseInt(parts[3]),
               IF df = "us" THEN ParseInt(parts[1]) ELSE ParseInt(parts[2]),
               IF df = "us" THEN ParseInt(parts[2]) ELSE ParseInt(parts[1]),
               0, 0, 0)

parseSlashDate(s, df) == SlashParts(Split(s, "/"), df)

parseLocaleDate(s, host) == OrNull(DateParse(s \o " UTC", host))

\* The groups of s.match(/^(A)<sep>(B)<sep>(C)(?:\s+(\d{1,2}):(\d{2})(?::(\d{2}))?)?$/)
\* for a string the pattern matches: A, B, C and the time's groups, "" for a
\* group that did not take part.
TimeGroups(t) == <<t[1], t[2], IF Len(t) > 2 THEN t[3] ELSE "">>

DateGroups(p, rest) ==
    <<p[1], p[2], DigitPrefix(p[3])>>
    \o TimeGroups(IF rest = "" THEN <<"", "">> ELSE Split(rest, ":"))

SplitGroups(p) == DateGroups(p, TrimStart(TrimDigits(p[3])))

DateTimeGroups(s, sep) == SplitGroups(Split(s, sep))

\* match[i] ? parseInt(match[i], 10) : 0
GroupOrZero(g) == IF g = "" THEN 0 ELSE ParseInt(g)

\* match = [_, day, month, year, hour?, min?, sec?]
DayFirstMatch(match) ==
    CheckedUTC(ParseInt(match[3]), ParseInt(match[2]), ParseInt(match[1]),
               GroupOrZero(match[4]), GroupOrZero(match[5]), GroupOrZero(match[6]))

\* match = [_, year, month, day, hour?, min?, sec?]
YearFirstMatch(match) ==
    CheckedUTC(ParseInt(match[1]), ParseInt(match[2]), ParseInt(match[3]),
               GroupOrZero(match[4]), GroupOrZero(match[5]), GroupOrZero(match[6]))

\* match = [_, N, N, year, hour, min, sec?], the month being the group
\* dateFormat says.
SlashMatch(match, df) ==
    CheckedUTC(ParseInt(match[3]),
               IF df = "us" THEN ParseInt(match[1]) ELSE ParseInt(match[2]),
               IF df = "us" THEN ParseInt(match[2]) ELSE ParseInt(match[1]),
               ParseInt(match[4]), ParseInt(match[5]), GroupOrZero(match[6]))

parseDotDate(s) ==
    IF ~Test(DotDateRe, s) THEN Null
    ELSE DayFirstMatch(DateTimeGroups(s, "."))

parseDashDMY(s) ==
    IF ~Test(DashDMYRe, s) THEN Null
    ELSE DayFirstMatch(DateTimeGroups(s, "-"))

parseSlashYMD(s) ==
    IF ~Test(SlashYMDRe, s) THEN Null
    ELSE YearFirstMatch(DateTimeGroups(s, "/"))

parseSlashDateTime(s, df) ==
    IF ~Test(SlashDateTimeRe, s) THEN Null
    ELSE SlashMatch(DateTimeGroups(s, "/"), df)

\* s.replace(re, '') for a pattern whose leftmost match is also its longest.
RemoveFirstMatch(s, re) ==
    LET starts == {i \in 1..(Len(s) + 1) : Ends(re, s, {i}) # {}}
    IN  IF starts = {} THEN s
        ELSE LET i == CHOOSE a \in starts : \A b \in starts : a <= b
                 ends == Ends(re, s, {i})
                 j == CHOOSE a \in ends : \A b \in ends : a >= b
             IN  SubSeq(s, 1, i - 1) \o SubSeq(s, j, Len(s))

\* now.getUTCFullYear() + '-' + month padded + '-' + date padded
DateString(nowf) ==
    IntToString(nowf.year) \o "-" \o PadStart(IntToString(nowf.month), 2)
    \o "-" \o PadStart(IntToString(nowf.day), 2)

\* The range check and the ISO string of today's date at h:m:sec.
TimeOfToday(dateStr, h, m, sec, host) ==
    IF h < 0 \/ h > 23 \/ m < 0 \/ m > 59 \/ sec < 0 \/ sec > 59 THEN Null
    ELSE OrNull(DateParse(dateStr \o "T" \o PadStart(IntToString(h), 2) \o ":"
                          \o PadStart(IntToString(m), 2) \o ":"
                          \o PadStart(IntToString(sec), 2) \o "Z", host))

\* if (isAM && h === 12) h = 0; if (isPM && h !== 12) h += 12;
MeridiemHour_NoNoonCase(h, isAM, isPM) == IF isPM THEN h + 12 ELSE h
MeridiemHour(h, isAM, isPM) ==
    IF isAM /\ h = 12 THEN 0 ELSE IF isPM /\ h # 12 THEN h + 12 ELSE h

TimeParts(dateStr, upper, parts, host) ==
    TimeOfToday(dateStr,
                MeridiemHour(ParseInt(parts[1]), Includes(upper, "AM"), Includes(upper, "PM")),
                ParseInt(parts[2]),
                IF Len(parts) > 2 /\ parts[3] # "" THEN ParseInt(parts[3]) ELSE 0,
                host)

parseTimeOnly(s, nowv, host) ==
    TimeParts(DateString(UTCFields(nowv)), Trim(ToUpperCase(s)),
              Split(Trim(RemoveFirstMatch(s, Seq_(<<S0, MeridiemRe, S0>>))), ":"), host)

\* fmt.parse(trimmed), with the state the parsers read: dateFormat, the wall
\* clock and the host's timezone.
Parse(fn, s, df, nowv, host) ==
    CASE fn = "parseRelativeInput" -> parseRelativeInput(s, nowv)
      [] fn = "unixMs" -> parseUnixMs(s)
      [] fn = "unixS" -> parseUnixS(s)
      [] fn = "parseISO" -> parseISO(s, host)
      [] fn = "parseCompactISO" -> parseCompactISO(s, host)
      [] fn = "parseRFC2822" -> parseRFC2822(s, host)
      [] fn = "parseSQLDatetime" -> parseSQLDatetime(s, host)
      [] fn = "dateOnly" -> parseDateOnly(s, host)
      [] fn = "parseCompactDate" -> parseCompactDate(s, host)
      [] fn = "parseSlashDate" -> parseSlashDate(s, df)
      [] fn = "parseSlashDateTime" -> parseSlashDateTime(s, df)
      [] fn = "parseSlashYMD" -> parseSlashYMD(s)
      [] fn = "parseDotDate" -> parseDotDate(s)
      [] fn = "parseDashDMY" -> parseDashDMY(s)
      [] fn = "dayMonYear" -> OrNull(DateParse(s \o " UTC", host))
      [] fn = "parseLocaleDate" -> parseLocaleDate(s, host)
      [] fn = "parseTimeOnly" -> parseTimeOnly(s, nowv, host)

\* fmt.name after the refresh at the top of the loop body.
FormatName_ByMode(fmt, df) == IF df = "us" THEN fmt.name ELSE "Date (DD/MM/YYYY)"
FormatName(fmt, df) ==
    IF fmt.parse = "parseSlashDate"
    THEN (IF df = "us" THEN "Date (MM/DD/YYYY)" ELSE "Date (DD/MM/YYYY)")
    ELSE IF fmt.parse = "parseSlashDateTime"
    THEN (IF df = "us" THEN "Datetime (MM/DD/YYYY HH:mm)" ELSE "Datetime (DD/MM/YYYY HH:mm)")
    ELSE fmt.name

\* The loop with a return after the first accepting rule, whatever its parser
\* gave: no fall-through.
StoppedAt(d, i, df, tested, parsed) ==
    [date |-> IF IsTV(d) THEN d ELSE Null,
     format |-> IF IsTV(d) THEN FormatName(FORMATS[i], df) ELSE "null",
     tested |-> Append(tested, i), parsed |-> Append(parsed, i)]

RECURSIVE FormatLoop_StopAtFirst(_, _, _, _, _, _, _)
FormatLoop_StopAtFirst(trimmed, i, df, nowv, host, tested, parsed) ==
    IF i > Len(FORMATS)
    THEN [date |-> Null, format |-> "null", tested |-> tested, parsed |-> parsed]
    ELSE IF Test(FORMATS[i].test, trimmed)
         THEN StoppedAt(Parse(FORMATS[i].parse, trimmed, df, nowv, host), i, df, tested, parsed)
         ELSE FormatLoop_StopAtFirst(trimmed, i + 1, df, nowv, host,
                                     Append(tested, i), parsed)

\* The for loop of parseTimestamp from rule i on.  tested and parsed log the
\* rules whose recognizer and whose parser have been evaluated so far.
RECURSIVE FormatLoop(_, _, _, _, _, _, _)
RECURSIVE Parsed(_, _, _, _, _, _, _, _)

\* const d = fmt.parse(trimmed); if (d && !isNaN(d.getTime())) return {...};
\* otherwise the loop goes on with the next rule.
Parsed(d, trimmed, i, df, nowv, host, tested, parsed) ==
    IF IsTV(d)
    THEN [date |-> d, format |-> FormatName(FORMATS[i], df),
          tested |-> Append(tested, i), parsed |-> Append(parsed, i)]
    ELSE FormatLoop(trimmed, i + 1, df, nowv, host, Append(tested, i), Append(parsed, i))

FormatLoop(trimmed, i, df, nowv, host, tested, parsed) ==
    IF i > Len(FORMATS)
    THEN [date |-> Null, format |-> "null", tested |-> tested, parsed |-> parsed]
    ELSE IF Test(FORMATS[i].test, trimmed)
         THEN Parsed(Parse(FORMATS[i].parse, trimmed, df, nowv, host),
                     trimmed, i, df, nowv, host, tested, parsed)
         ELSE FormatLoop(trimmed, i + 1, df, nowv, host, Append(tested, i), parsed)

\* parseTimestamp without the early return for an empty trimmed text.
parseTimestamp_NoEmptyCheck(in, df, nowv, host) ==
    FormatLoop(Trim(in), 1, df, nowv, host, <<>>, <<>>)

parseTimestamp(in, df, nowv, host) ==
    LET trimmed == Trim(in)
    IN  IF trimmed = ""
        THEN [date |-> Null, format |-> "null", tested |-> <<>>, parsed |-> <<>>]
        ELSE FormatLoop(trimmed, 1, df, nowv, host, <<>>, <<>>)

\* isSlashDate(format): format && (format.includes('MM/DD') || format.includes('DD/MM'))
isSlashDate(format) ==
    format # "null" /\ (Includes(format, "MM/DD") \/ Includes(format, "DD/MM"))


(***************************************************************************)
(* Timezone helpers and output formatters                                  *)
(***************************************************************************)

\* The last Sunday of month mo (1-based) of year y, as a day number.
LastSunday(y, mo) ==
    LET last == MakeDay(y, mo - 1, DaysInMonth(y, mo - 1))
    IN  last - WeekDay(last)

\* European summer time: from 01:00 UTC on the last Sunday of March until 01:00
\* UTC on the last Sunday of October.
InEUSummerTime(t) ==
    LET y == YearFromDay(t.day)
    IN  /\ ~TVLess(t, TV(LastSunday(y, 3), 3600000))
        /\ TVLess(t, TV(LastSunday(y, 10), 3600000))

\* The zones of the model, and since which year each has kept the rule below
\* (the Etc zones are fixed offsets at every instant).
Zones ==
    {"UTC", "Etc/GMT-14", "Etc/GMT+12", "Etc/GMT-1", "Asia/Kolkata", "Asia/Kathmandu",
     "Europe/Helsinki"}

ZoneSince(z) ==
    CASE z = "Asia/Kolkata" -> 1946
      [] z = "Asia/Kathmandu" -> 1986
      [] z = "Europe/Helsinki" -> 1996
      [] OTHER -> 0

\* The calendar service (Intl.DateTimeFormat with the timeZone option): the UTC
\* offset, in minutes, zone z observes at instant t.
ZoneOffset(z, t) ==
    CASE z = "UTC" -> 0
      [] z = "Etc/GMT-14" -> 840
      [] z = "Etc/GMT+12" -> 0 - 720
      [] z = "Etc/GMT-1" -> 60
      [] z = "Asia/Kolkata" -> 330
      [] z = "Asia/Kathmandu" -> 345
      [] z = "Europe/Helsinki" -> IF InEUSummerTime(t) THEN 180 ELSE 120

\* getPartsInTz(date, tz): the civil fields the calendar service reports.
\* The object getPartsInTz returns from the formatted parts f.  The formatter
\* prints the year of the era: astronomical year 0 is year 1 (BC), -1 is year 2.
PartsObject(f) ==
    [year |-> IF f.year <= 0 THEN 1 - f.year ELSE f.year, month |-> f.month, day |-> f.day, hour |-> f.hour % 24,
     minute |-> f.minute, second |-> f.second]

getPartsInTz(d, z) == PartsObject(UTCFields(TVAdd(d, ZoneOffset(z, d) * 60000)))

\* Math.round((a - b) / 60000) for two time values: half-way cases round up.
RoundedMinutesBetween(a, b) ==
    (a.day - b.day) * 1440 + ((a.ms - b.ms + 30000) \div 60000)

\* Date.UTC(f.year, f.month - 1, f.day, f.hour, f.minute, f.second)
DateUTCOfFields(f) == DateUTC(f.year, f.month - 1, f.day, f.hour, f.minute, f.second)

getOffsetMinutes(d, z) ==
    RoundedMinutesBetween(DateUTCOfFields(getPartsInTz(d, z)), DateUTCOfFields(UTCFields(d)))

\* The seconds truncated toward zero instead of floored.
formatUnixS_Truncated(d) ==
    IF d.day < 0 /\ d.ms % 1000 # 0
    THEN WideToString(d.day, (d.ms \div 1000) + 1, 86400)
    ELSE WideToString(d.day, d.ms \div 1000, 86400)

\* String(Math.floor(date.getTime() / 1000)): the time value is
\* day * 86400000 + ms with 0 <= ms < 86400000, so the floor of its thousandth
\* is day * 86400 + floor(ms / 1000).
formatUnixS(d) == WideToString(d.day, d.ms \div 1000, 86400)

\* String(date.getTime())
formatUnixMs(d) == WideToString(d.day, d.ms, MsPerDay)

\* date.getTime() % 1000: the remainder has the sign of the dividend, so it is
\* negative for an instant before the epoch that is not a whole second.
MsRemainder(d) ==
    IF d.day < 0 /\ d.ms % 1000 # 0 THEN (d.ms % 1000) - 1000 ELSE d.ms % 1000

formatOffsetHHMM(minutes) ==
    (IF minutes >= 0 THEN "+" ELSE "-")
    \o PadStart(IntToString((IF minutes < 0 THEN 0 - minutes ELSE minutes) \div 60), 2)
    \o ":"
    \o PadStart(IntToString((IF minutes < 0 THEN 0 - minutes ELSE minutes) % 60), 2)

\* The year of toISOString: four digits for 0..9999, else a sign and six digits.
ISOYear(y) ==
    IF y >= 0 /\ y <= 9999 THEN PadStart(IntToString(y), 4)
    ELSE (IF y < 0 THEN "-" ELSE "+") \o PadStart(IntToString(IF y < 0 THEN 0 - y ELSE y), 6)

\* YYYY-MM-DD<sep>hh:mm:ss of civil fields f, each number through
\* String(n).padStart(width, '0').
PaddedDateTime(f, sep) ==
    PadStart(IntToString(f.year), 4) \o "-" \o PadStart(IntToString(f.month), 2) \o "-"
    \o PadStart(IntToString(f.day), 2) \o sep \o PadStart(IntToString(f.hour), 2) \o ":"
    \o PadStart(IntToString(f.minute), 2) \o ":" \o PadStart(IntToString(f.second), 2)

\* Date.prototype.toISOString of UTC fields f.
ISOStringOfFields(f) ==
    ISOYear(f.year) \o "-" \o PadStart(IntToString(f.month), 2) \o "-"
    \o PadStart(IntToString(f.day), 2) \o "T" \o PadStart(IntToString(f.hour), 2) \o ":"
    \o PadStart(IntToString(f.minute), 2) \o ":" \o PadStart(IntToString(f.second), 2)
    \o "." \o PadStart(IntToString(f.ms), 3) \o "Z"

formatISO(d) == ISOStringOfFields(UTCFields(d))

formatISOWithOffset(d, z) ==
    PaddedDateTime(getPartsInTz(d, z), "T") \o "."
    \o PadStart(IntToString(MsRemainder(d)), 3)
    \o formatOffsetHHMM(getOffsetMinutes(d, z))

\* if (ms > 0) str += '.' + String(ms).padStart(3, '0')
SQLFraction(ms) == IF ms > 0 THEN "." \o PadStart(IntToString(ms), 3) ELSE ""

formatSQL(d, z) == PaddedDateTime(getPartsInTz(d, z), " ") \o SQLFraction(MsRemainder(d))

\* |a - b| for two time values.
AbsDiff(a, b) ==
    IF TVLess(a, b) THEN TV(b.day - a.day, b.ms - a.ms) ELSE TV(a.day - b.day, a.ms - b.ms)

\* Math.floor(days / 30.44) and Math.floor(days / 365.25): 30.44 is 761 / 25
\* and 365.25 is 1461 / 4.
\* Months of thirty days instead of 30.44.
MonthsOfDays_ThirtyDays(days) == days \div 30
MonthsOfDays(days) == (days \div 761) * 25 + ((days % 761) * 25) \div 761
YearsOfDays(days) == (days \div 1461) * 4 + ((days % 1461) * 4) \div 1461

\* The bucket of formatRelative for a difference of days whole days and ms
\* further milliseconds.  seconds, minutes and hours are the code's floors of
\* the whole difference; each is compared only where days = 0 decides it.
RelativeBucket(days, ms) ==
    IF days = 0 /\ ms \div 1000 < 5 THEN "just now"
    ELSE IF days = 0 /\ ms \div 1000 < 60 THEN IntToString(ms \div 1000) \o " seconds"
    ELSE IF days = 0 /\ ms \div 60000 = 1 THEN "1 minute"
    ELSE IF days = 0 /\ ms \div 60000 < 60 THEN IntToString(ms \div 60000) \o " minutes"
    ELSE IF days = 0 /\ ms \div 3600000 = 1 THEN "1 hour"
    ELSE IF days = 0 THEN IntToString(ms \div 3600000) \o " hours"
    ELSE IF days = 1 THEN "1 day"
    ELSE IF days < 30 THEN IntToString(days) \o " days"
    ELSE IF MonthsOfDays(days) = 1 THEN "1 month"
    ELSE IF MonthsOfDays(days) < 12 THEN IntToString(MonthsOfDays(days)) \o " months"
    ELSE IF YearsOfDays(days) = 1 THEN "1 year"
    ELSE IntToString(YearsOfDays(days)) \o " years"

\* if (str === 'just now') return str; return future ? 'in ' + str : str + ' ago';
RelativeAffix(str, future) ==
    IF str = "just now" THEN str ELSE IF future THEN "in " \o str ELSE str \o " ago"

RelativeOfDiff(diff, future) == RelativeAffix(RelativeBucket(diff.day, diff.ms), future)

\* formatRelative(date) when Date.now() is nowv.
formatRelative(d, nowv) == RelativeOfDiff(AbsDiff(nowv, d), TVLess(nowv, d))

\* updateOutputs(): the rows rendered from currentDate and currentTimezone.
RFC_DAYS == <<"Sun", "Mon", "Tue", "Wed", "Thu", "Fri", "Sat">>

RFC_MONTHS ==
    <<"Jan", "Feb", "Mar", "Apr", "May", "Jun", "Jul", "Aug", "Sep", "Oct", "Nov", "Dec">>

\* tempDate.getUTCDay(), tempDate being new Date(Date.UTC(parts.year,
\* parts.month - 1, parts.day, parts.hour, parts.minute, parts.second)).
TempDateDay(parts) == WeekDay(DateUTCOfFields(parts).day)

\* sign + offH + offM
RFCOffset(offsetMin) ==
    (IF offsetMin >= 0 THEN "+" ELSE "-")
    \o PadStart(IntToString((IF offsetMin < 0 THEN 0 - offsetMin ELSE offsetMin) \div 60), 2)
    \o PadStart(IntToString((IF offsetMin < 0 THEN 0 - offsetMin ELSE offsetMin) % 60), 2)

RFCText(parts, offsetMin) ==
    RFC_DAYS[TempDateDay(parts) + 1] \o ", " \o PadStart(IntToString(parts.day), 2) \o " "
    \o RFC_MONTHS[parts.month] \o " " \o IntToString(parts.year) \o " "
    \o PadStart(IntToString(parts.hour), 2) \o ":" \o PadStart(IntToString(parts.minute), 2)
    \o ":" \o PadStart(IntToString(parts.second), 2) \o " " \o RFCOffset(offsetMin)

formatRFC2822(d, z) == RFCText(getPartsInTz(d, z), getOffsetMinutes(d, z))

\* The calendar service's long names of the en-US locale.
LongDays ==
    <<"Sunday", "Monday", "Tuesday", "Wednesday", "Thursday", "Friday", "Saturday">>

LongMonths ==
    <<"January", "February", "March", "April", "May", "June", "July", "August",
      "September", "October", "November", "December">>

\* Intl.DateTimeFormat('en-US', {weekday: 'long', year: 'numeric', month: 'long',
\* day: 'numeric', hour: '2-digit', minute: '2-digit', second: '2-digit',
\* hour12: true}) of the local time value t with civil fields parts.
HumanText(t, parts) ==
    LongDays[WeekDay(t.day) + 1] \o ", " \o LongMonths[parts.month] \o " "
    \o IntToString(parts.day) \o ", " \o IntToString(parts.year) \o " at "
    \o PadStart(IntToString(IF parts.hour % 12 = 0 THEN 12 ELSE parts.hour % 12), 2) \o ":"
    \o PadStart(IntToString(parts.minute), 2) \o ":" \o PadStart(IntToString(parts.second), 2)
    \o (IF parts.hour < 12 THEN " AM" ELSE " PM")

formatHuman(d, z) == HumanText(TVAdd(d, ZoneOffset(z, d) * 60000), getPartsInTz(d, z))

RenderOutputs(d, z, nowv) ==
    [unixS |-> formatUnixS(d), unixMs |-> formatUnixMs(d), iso |-> formatISO(d),
     isoTz |-> formatISOWithOffset(d, z), rfc |-> formatRFC2822(d, z), sql |-> formatSQL(d, z),
     relative |-> formatRelative(d, nowv), human |-> formatHuman(d, z),
     offsetMinutes |-> getOffsetMinutes(d, z)]


(***************************************************************************)
(* The inputs of the model                                                 *)
(***************************************************************************)

\* The longest run of digits among the numeric inputs.
MaxDigits == 17

RECURSIVE RepeatChar(_, _)
RepeatChar(c, n) == IF n <= 0 THEN "" ELSE c \o RepeatChar(c, n - 1)

P2(n) == PadStart(IntToString(n), 2)
P4(n) == PadStart(IntToString(n), 4)

\* How an input is written: kind names the notation, text is the input itself,
\* and the other fields are the numbers the text spells out (a and b are the
\* first and second group of a slash date; digits and neg describe a number).
NoShape ==
    [kind |-> "none", text |-> "", y |-> 0, mo |-> 0, d |-> 0, a |-> 0, b |-> 0,
     h |-> 0, mi |-> 0, sec |-> 0, ms |-> 0, timed |-> FALSE, zoned |-> FALSE,
     off |-> 0, digits |-> "", neg |-> FALSE]

\* Times of day: <<hour, minute, second, whether the seconds are written>>.
GoodTimes == {<<10, 30, 0, FALSE>>, <<23, 59, 59, TRUE>>, <<7, 5, 0, FALSE>>}
BadTimes == {<<25, 0, 0, FALSE>>, <<10, 61, 0, FALSE>>, <<10, 30, 61, TRUE>>}

\* h:mm[:ss] with the hour as written (one or two digits), and hh:mm[:ss].
TimeText(t) ==
    IntToString(t[1]) \o ":" \o P2(t[2]) \o (IF t[4] THEN ":" \o P2(t[3]) ELSE "")
TimeText2(t) == P2(t[1]) \o ":" \o P2(t[2]) \o (IF t[4] THEN ":" \o P2(t[3]) ELSE "")

WithTime(sh, t) ==
    [sh EXCEPT !.text = sh.text \o " " \o TimeText(t), !.h = t[1], !.mi = t[2],
               !.sec = t[3], !.timed = TRUE]

Years == {50, 1969, 2024}

BlankShapes == {[NoShape EXCEPT !.kind = "blank", !.text = t] : t \in {"", " ", "   ", " \t "}}

JunkShapes ==
    {[NoShape EXCEPT !.kind = "junk", !.text = t] :
        t \in {"not a date", "hello", "12:3", "2024-13", "1/2/24", "+5", "1.5", "12 34",
               "2024-01-15T", "Jan 2024", "--5", "now!"}}

RelativeShapes ==
    {[NoShape EXCEPT !.kind = "relative", !.text = t] :
        t \in {"now", "Today", "YESTERDAY", "tomorrow", " now "}}

UnixDigitStrings ==
    UNION {{"1" \o RepeatChar("0", n - 1), RepeatChar("9", n), RepeatChar("0", n - 1) \o "1"} :
              n \in 1..MaxDigits}
    \cup {"0", "86400", "1700000000", "1700000000000", "1705314600123",
          "8640000000000000", "8640000000000001", "08640000000000000"}

UnixShapes ==
    {[NoShape EXCEPT !.kind = "unix", !.text = pad \o sign \o ds \o pad, !.digits = ds,
                     !.neg = (sign = "-")] :
        sign \in {"", "-"}, ds \in UnixDigitStrings, pad \in {"", " "}}

\* Calendar dates <<year, month, day>>, valid and not.
GoodDates == {<<2024, 1, 15>>, <<2024, 7, 15>>, <<1969, 12, 31>>, <<50, 6, 1>>, <<2024, 2, 29>>}
BadDates == {<<2024, 13, 1>>, <<2024, 0, 10>>, <<2024, 1, 32>>, <<2024, 6, 0>>}

DateShape(kind, dt, text) ==
    [NoShape EXCEPT !.kind = kind, !.text = text, !.y = dt[1], !.mo = dt[2], !.d = dt[3]]

CompactDateShapes ==
    {[DateShape("compactDate", dt, P4(dt[1]) \o P2(dt[2]) \o P2(dt[3]))
         EXCEPT !.digits = P4(dt[1]) \o P2(dt[2]) \o P2(dt[3])] :
        dt \in GoodDates \cup BadDates}

DateOnlyShapes ==
    {DateShape("date", dt, P4(dt[1]) \o "-" \o P2(dt[2]) \o "-" \o P2(dt[3])) :
        dt \in GoodDates \cup BadDates}

\* Zone suffixes of the ISO notation: <<text, minutes>>.
IsoZones == {<<"Z", 0>>, <<"+02:00", 120>>, <<"-05:30", 0 - 330>>}

IsoBase(kind, dt, sep, t, frac) ==
    [DateShape(kind, dt, P4(dt[1]) \o "-" \o P2(dt[2]) \o "-" \o P2(dt[3]) \o sep
                         \o TimeText2(t) \o (IF frac[1] = "" THEN "" ELSE frac[1]))
        EXCEPT !.h = t[1], !.mi = t[2], !.sec = t[3], !.timed = TRUE, !.ms = frac[2]]

IsoShapes ==
    LET plain == {IsoBase("iso", dt, "T", t, <<"", 0>>) :
                     dt \in GoodDates \cup {<<2024, 13, 1>>}, t \in GoodTimes \cup BadTimes}
                 \cup {IsoBase("iso", dt, "T", <<23, 59, 59, TRUE>>, <<".999", 999>>) :
                          dt \in GoodDates}
    IN  plain \cup {[sh EXCEPT !.text = sh.text \o z[1], !.zoned = TRUE, !.off = z[2]] :
                       sh \in plain, z \in IsoZones}

CompactIsoShapes ==
    {[DateShape("compactIso", dt, P4(dt[1]) \o P2(dt[2]) \o P2(dt[3]) \o "T" \o P2(t[1])
                                  \o P2(t[2]) \o P2(t[3]))
         EXCEPT !.h = t[1], !.mi = t[2], !.sec = t[3], !.timed = TRUE] :
        dt \in GoodDates \cup {<<2024, 13, 1>>}, t \in GoodTimes \cup {<<25, 0, 0, FALSE>>}}

SqlShapes ==
    {IsoBase("sql", dt, " ", t, <<"", 0>>) :
        dt \in GoodDates \cup {<<2024, 13, 1>>}, t \in GoodTimes \cup BadTimes}
    \cup {IsoBase("sql", dt, " ", <<23, 59, 59, TRUE>>, f) :
             dt \in GoodDates, f \in {<<".123", 123>>, <<",123", 123>>}}

\* Zone suffixes of the RFC 2822 notation: <<text, whether a zone is written, minutes>>.
RfcZones ==
    {<<"", FALSE, 0>>, <<" +0000", TRUE, 0>>, <<" +0200", TRUE, 120>>,
     <<" -0530", TRUE, 0 - 330>>, <<" GMT", TRUE, 0>>, <<" EST", TRUE, 0 - 300>>}

RfcShapes ==
    {[DateShape("rfc", dt, RFC_DAYS[WeekDay(MakeDay(dt[1], dt[2] - 1, dt[3])) + 1] \o comma
                           \o " " \o IntToString(dt[3]) \o " " \o RFC_MONTHS[dt[2]] \o " "
                           \o P4(dt[1]) \o " " \o TimeText2(t) \o z[1])
         EXCEPT !.h = t[1], !.mi = t[2], !.sec = t[3], !.timed = TRUE, !.zoned = z[2],
                !.off = z[3]] :
        dt \in {<<2024, 1, 15>>, <<2024, 7, 15>>, <<1969, 12, 31>>},
        t \in {<<10, 30, 0, FALSE>>, <<23, 59, 59, TRUE>>}, z \in RfcZones,
        comma \in {",", ""}}

NamedMonthShapes ==
    {DateShape("dayMonYear", dt, IntToString(dt[3]) \o " " \o m \o " " \o P4(dt[1])) :
        dt \in {<<2024, 1, 15>>, <<1969, 1, 31>>}, m \in {"Jan", "January", "jan"}}
    \cup {DateShape("monDay", dt, m \o " " \o IntToString(dt[3]) \o c \o " " \o P4(dt[1])) :
             dt \in {<<2024, 1, 15>>, <<1969, 1, 31>>}, m \in {"Jan", "January"},
             c \in {",", ""}}
    \cup {[DateShape("monDay", <<2024, 1, 15>>, "Jan 15, 2024 " \o t[1])
              EXCEPT !.h = t[2], !.mi = t[3], !.sec = t[4], !.timed = TRUE] :
             t \in {<<"10:30", 10, 30, 0>>, <<"10:30 AM", 10, 30, 0>>,
                    <<"10:30:15 pm", 22, 30, 15>>, <<"12:05 AM", 0, 5, 0>>}}
    \cup {DateShape("dayMonYear", <<2024, 0, 15>>, "15 Foo 2024"),
          DateShape("monDay", <<2024, 0, 15>>, "Foo 15, 2024")}

\* The numbers a slash, dot or dash date is written with.
Groups == {0, 1, 2, 4, 12, 13, 31, 32}

\* Slash dates in the first and last years of four digits and on both sides
\* of year 100: <<first group, second group, year>>.
CenturyGroups ==
    {<<1, 1, 0>>, <<2, 29, 0>>, <<29, 2, 0>>, <<12, 31, 99>>, <<31, 12, 99>>, <<1, 1, 100>>,
     <<12, 31, 9999>>, <<31, 12, 9999>>}

SlashShapes ==
    LET plain == {[NoShape EXCEPT !.kind = "slash", !.a = a, !.b = b, !.y = y,
                                  !.text = IntToString(a) \o "/" \o P2(b) \o "/" \o P4(y)] :
                     a \in Groups, b \in Groups, y \in Years}
                 \cup {[NoShape EXCEPT !.kind = "slash", !.a = g[1], !.b = g[2], !.y = g[3],
                                       !.text = IntToString(g[1]) \o "/" \o P2(g[2]) \o "/"
                                                \o P4(g[3])] : g \in CenturyGroups}
    IN  plain \cup {WithTime(sh, t) : sh \in plain, t \in GoodTimes \cup BadTimes}

\* Dates of the year-first, dot and dash notations: days at and beyond the
\* end of short and long months, a month and a day of 0, and dates in the
\* first and last years of four digits and on both sides of year 100.
DayFirstDates ==
    {<<y, mo, d>> : y \in Years, mo \in {1, 12, 13}, d \in {1, 31, 32}}
    \cup {<<y, mo, d>> : y \in Years, mo \in {2, 4}, d \in {29, 30, 31}}
    \cup {<<2024, 0, 15>>, <<2024, 4, 0>>, <<0, 1, 1>>, <<0, 2, 29>>, <<99, 12, 31>>,
          <<100, 1, 1>>, <<9999, 12, 31>>}

SeparatedShapes ==
    LET ymd == {DateShape("slashYMD", dt, P4(dt[1]) \o "/" \o IntToString(dt[2]) \o "/"
                                          \o P2(dt[3])) : dt \in DayFirstDates}
        dot == {DateShape("dot", dt, IntToString(dt[3]) \o "." \o P2(dt[2]) \o "."
                                     \o P4(dt[1])) : dt \in DayFirstDates}
        dash == {DateShape("dash", dt, P2(dt[3]) \o "-" \o IntToString(dt[2]) \o "-"
                                       \o P4(dt[1])) : dt \in DayFirstDates}
        plain == ymd \cup dot \cup dash
    IN  plain \cup {WithTime(sh, t) : sh \in plain,
                       t \in {<<10, 30, 0, FALSE>>, <<23, 59, 59, TRUE>>, <<25, 0, 0, FALSE>>,
                              <<10, 61, 0, FALSE>>, <<10, 30, 61, TRUE>>}}

\* Time-only inputs: <<text, hour of the day meant, minute, second>>.
TimeOnlyShapes ==
    {[NoShape EXCEPT !.kind = "timeOnly", !.text = t[1], !.h = t[2], !.mi = t[3],
                     !.sec = t[4], !.timed = TRUE] :
        t \in {<<"10:30", 10, 30, 0>>, <<"22:30", 22, 30, 0>>, <<"10:30:00", 10, 30, 0>>,
               <<"7:05", 7, 5, 0>>, <<"10:30 AM", 10, 30, 0>>, <<"12:00 AM", 0, 0, 0>>,
               <<"12:30 PM", 12, 30, 0>>, <<"11:59:59 pm", 23, 59, 59>>,
               <<"1:15PM", 13, 15, 0>>, <<"24:00", 24, 0, 0>>, <<"25:00", 25, 0, 0>>,
               <<"13:00 PM", 25, 0, 0>>, <<"10:60", 10, 60, 0>>, <<"10:30:60", 10, 30, 60>>,
               <<"0:00", 0, 0, 0>>, <<"00:00:01", 0, 0, 1>>, <<"23:59:59", 23, 59, 59>>,
               <<"12:00 PM", 12, 0, 0>>, <<"12:59:59 AM", 0, 59, 59>>,
               <<"1:00 AM", 1, 0, 0>>, <<"11:00 PM", 23, 0, 0>>, <<"08:09 pm", 20, 9, 0>>,
               <<"9:30   Am", 9, 30, 0>>, <<"23:59 PM", 35, 59, 0>>, <<"12:60 PM", 12, 60, 0>>,
               <<"99:99:99", 99, 99, 99>>}}

Shapes ==
    BlankShapes \cup JunkShapes \cup RelativeShapes \cup UnixShapes \cup CompactDateShapes
    \cup DateOnlyShapes \cup IsoShapes \cup CompactIsoShapes \cup SqlShapes \cup RfcShapes
    \cup NamedMonthShapes \cup SlashShapes \cup SeparatedShapes \cup TimeOnlyShapes

\* The host's local timezone, as a fixed UTC offset in minutes.
HostOffsets == {0, 120, 0 - 300}

\* The wall clock: 2024-01-15T10:30:00.250Z.
Clock == CivilUTC(2024, 1, 15, 10, 30, 0, 250)

\* The wall clocks a time-only input is detected at: Clock, and the late
\* evening of a leap day, when hosts east of Greenwich already have 1 March.
Clocks == {Clock, CivilUTC(2024, 2, 29, 23, 30, 0, 0)}

\* Distances from the wall clock, as <<days, milliseconds>>, on both sides of
\* every breakpoint of formatRelative.
Distances ==
    {<<0, 0>>, <<0, 4999>>, <<0, 5000>>, <<0, 59999>>, <<0, 60000>>, <<0, 119999>>,
     <<0, 120000>>, <<0, 3599999>>, <<0, 3600000>>, <<0, 7199999>>, <<0, 7200000>>,
     <<0, 86399999>>, <<1, 0>>, <<1, 86399999>>, <<2, 0>>, <<29, 86399999>>, <<30, 0>>,
     <<30, 86399999>>, <<31, 0>>, <<60, 0>>, <<61, 0>>, <<365, 0>>, <<366, 0>>,
     <<730, 0>>, <<731, 0>>}

\* The instants put on display: civil dates at chosen times of day, and the
\* instants at the Distances before and after the wall clock.
Instants ==
    {CivilUTC(dt[1], dt[2], dt[3], t[1], t[2], t[3], t[4]) :
        dt \in {<<0, 1, 1>>, <<99, 12, 31>>, <<100, 1, 1>>, <<1969, 12, 31>>, <<1970, 1, 1>>,
                <<2024, 1, 15>>, <<2024, 3, 31>>, <<2024, 7, 15>>, <<2024, 10, 27>>,
                <<9999, 12, 31>>},
        t \in {<<0, 0, 0, 0>>, <<0, 59, 59, 999>>, <<10, 30, 0, 0>>, <<10, 30, 0, 1>>,
               <<23, 30, 0, 123>>, <<23, 59, 59, 999>>}}
    \cup {TV(Clock.day + k[1], Clock.ms + k[2]) : k \in Distances}
    \cup {TV(Clock.day - k[1], Clock.ms - k[2]) : k \in Distances}

(***************************************************************************)
(* The timezone search                                                     *)
(***************************************************************************)

\* TZ_ABBREVS, as its entries in insertion order: <<key, zones>>.
TZ_ABBREVS ==
    << <<"est", <<"America/New_York">> >>, <<"edt", <<"America/New_York">> >>,
       <<"cst", <<"America/Chicago">> >>, <<"cdt", <<"America/Chicago">> >>,
       <<"mst", <<"America/Denver">> >>, <<"mdt", <<"America/Denver">> >>,
       <<"pst", <<"America/Los_Angeles">> >>, <<"pdt", <<"America/Los_Angeles">> >>,
       <<"akst", <<"America/Anchorage">> >>, <<"akdt", <<"America/Anchorage">> >>,
       <<"hst", <<"Pacific/Honolulu">> >>, <<"hast", <<"Pacific/Honolulu">> >>,
       <<"ast", <<"America/Halifax">> >>, <<"adt", <<"America/Halifax">> >>,
       <<"nst", <<"America/St_Johns">> >>, <<"ndt", <<"America/St_Johns">> >>,
       <<"gmt", <<"Europe/London">> >>, <<"bst", <<"Europe/London">> >>,
       <<"utc", <<"UTC">> >>,
       <<"wet", <<"Europe/Lisbon">> >>, <<"west", <<"Europe/Lisbon">> >>,
       <<"cet", <<"Europe/Berlin", "Europe/Paris", "Europe/Rome">> >>,
       <<"cest", <<"Europe/Berlin", "Europe/Paris", "Europe/Rome">> >>,
       <<"eet", <<"Europe/Helsinki", "Europe/Bucharest", "Europe/Athens">> >>,
       <<"eest", <<"Europe/Helsinki", "Europe/Bucharest", "Europe/Athens">> >>,
       <<"msk", <<"Europe/Moscow">> >>,
       <<"ist", <<"Asia/Kolkata">> >>,
       <<"pkt", <<"Asia/Karachi">> >>,
       <<"bdt", <<"Asia/Dhaka">> >>,
       <<"ict", <<"Asia/Bangkok">> >>,
       <<"wib", <<"Asia/Jakarta">> >>,
       <<"wita", <<"Asia/Makassar">> >>,
       <<"wit", <<"Asia/Jayapura">> >>,
       <<"sgt", <<"Asia/Singapore">> >>, <<"myt", <<"Asia/Kuala_Lumpur">> >>,
       <<"hkt", <<"Asia/Hong_Kong">> >>,
       <<"cst_cn", <<"Asia/Shanghai">> >>, <<"ct", <<"Asia/Shanghai">> >>,
       <<"jst", <<"Asia/Tokyo">> >>,
       <<"kst", <<"Asia/Seoul">> >>,
       <<"awst", <<"Australia/Perth">> >>,
       <<"acst", <<"Australia/Adelaide">> >>, <<"acdt", <<"Australia/Adelaide">> >>,
       <<"aest", <<"Australia/Sydney", "Australia/Melbourne", "Australia/Brisbane">> >>,
       <<"aedt", <<"Australia/Sydney", "Australia/Melbourne">> >>,
       <<"nzst", <<"Pacific/Auckland">> >>, <<"nzdt", <<"Pacific/Auckland">> >>,
       <<"brt", <<"America/Sao_Paulo">> >>, <<"brst", <<"America/Sao_Paulo">> >>,
       <<"art", <<"America/Argentina/Buenos_Aires">> >>,
       <<"clt", <<"America/Santiago">> >>, <<"clst", <<"America/Santiago">> >>,
       <<"cat", <<"Africa/Johannesburg">> >>,
       <<"eat", <<"Africa/Nairobi">> >>,
       <<"wat", <<"Africa/Lagos">> >>,
       <<"sast", <<"Africa/Johannesburg">> >> >>

Elements(seq) == {seq[i] : i \in 1..Len(seq)}

\* The lower-case property names every object inherits from Object.prototype:
\* TZ_ABBREVS[q] finds them although the table does not list them.
InheritedKeys == {"constructor", "__proto__"}

Keys == {TZ_ABBREVS[i][1] : i \in 1..Len(TZ_ABBREVS)}

\* TZ_ABBREVS[q] where q is a key of the table, <<>> standing for the
\* undefined of any other q the Set is built for.
AbbrevLookup(q) ==
    IF q \in Keys
    THEN TZ_ABBREVS[CHOOSE i \in 1..Len(TZ_ABBREVS) : TZ_ABBREVS[i][1] = q][2]
    ELSE <<>>

\* TZ_ABBREVS[q] is an inherited property: truthy but not iterable, so
\* new Set(abbrevMatches) throws a TypeError.
NotIterable(q) == q \notin Keys /\ q \in InheritedKeys

\* tzToAbbrevs[zone]: the keys whose entry lists the zone, in insertion
\* order.
RECURSIVE AbbrevsFrom(_, _)
AbbrevsFrom(zone, i) ==
    IF i > Len(TZ_ABBREVS) THEN <<>>
    ELSE (IF zone \in Elements(TZ_ABBREVS[i][2]) THEN <<TZ_ABBREVS[i][1]>> ELSE <<>>)
         \o AbbrevsFrom(zone, i + 1)

tzToAbbrevs(zone) == AbbrevsFrom(zone, 1)

Separators == {"/", "_", " ", "-"}

\* The loop of fuzzyScore over the text position ti and the query position
\* qi (both 0-based), and its return statement.
RECURSIVE FuzzyLoop_Partial(_, _, _, _, _, _)
FuzzyLoop_Partial(q, t, ti, qi, score, lastMatchIndex) ==
    IF ti < Len(t) /\ qi < Len(q)
    THEN IF Char(t, ti + 1) = Char(q, qi + 1)
         THEN FuzzyLoop_Partial(q, t, ti + 1, qi + 1,
                                score + 1 + (IF ti = lastMatchIndex + 1 THEN 3 ELSE 0)
                                    + (IF ti = 0 \/ Char(t, ti) \in Separators THEN 5 ELSE 0),
                                ti)
         ELSE FuzzyLoop_Partial(q, t, ti + 1, qi, score, lastMatchIndex)
    ELSE score
RECURSIVE FuzzyLoop(_, _, _, _, _, _)
FuzzyLoop(q, t, ti, qi, score, lastMatchIndex) ==
    IF ti < Len(t) /\ qi < Len(q)
    THEN IF Char(t, ti + 1) = Char(q, qi + 1)
         THEN FuzzyLoop(q, t, ti + 1, qi + 1,
                        score + 1 + (IF ti = lastMatchIndex + 1 THEN 3 ELSE 0)
                            + (IF ti = 0 \/ Char(t, ti) \in Separators THEN 5 ELSE 0),
                        ti)
         ELSE FuzzyLoop(q, t, ti + 1, qi, score, lastMatchIndex)
    ELSE IF qi = Len(q) THEN score ELSE 0

fuzzyScore_LastAtMinusOne(query, text) ==
    FuzzyLoop(ToLowerCase(query), ToLowerCase(text), 0, 0, 0, 0 - 1)
fuzzyScore(query, text) == FuzzyLoop(ToLowerCase(query), ToLowerCase(text), 0, 0, 0, 0 - 2)

MathMax(a, b) == IF a >= b THEN a ELSE b

\* best after the loop over the zone's abbreviations.
RECURSIVE BestOver(_, _, _, _)
BestOver(q, abbrs, i, best) ==
    IF i > Len(abbrs) THEN best
    ELSE BestOver(q, abbrs, i + 1, MathMax(best, fuzzyScore(q, abbrs[i])))

\* The boost of a zone listed under the query.
AbbrevBoost_None(abbrevMatches, tz) == 0
AbbrevBoost(abbrevMatches, tz) == IF tz \in Elements(abbrevMatches) THEN 50 ELSE 0

\* The score filterTimezones gives the zone tz for the query q.
ZoneScore(q, abbrevMatches, tz) ==
    BestOver(q, tzToAbbrevs(tz), 1, fuzzyScore(q, tz)) + AbbrevBoost(abbrevMatches, tz)

\* scored.push({tz, score: best}) if best > 0.
ScoredEntry(tz, best) == IF best > 0 THEN <<[tz |-> tz, score |-> best]>> ELSE <<>>

\* scored: the zones of positive score, in catalog order.
RECURSIVE ScoredFrom(_, _, _, _)
ScoredFrom(q, abbrevMatches, all, i) ==
    IF i > Len(all) THEN <<>>
    ELSE ScoredEntry(all[i], ZoneScore(q, abbrevMatches, all[i]))
         \o ScoredFrom(q, abbrevMatches, all, i + 1)

\* Array.prototype.sort with (a, b) => b.score - a.score: a stable sort, so
\* an entry goes behind every entry of the same or a higher score.
RECURSIVE InsertByScore(_, _)
InsertByScore(sorted, e) ==
    IF sorted = <<>> THEN <<e>>
    ELSE IF sorted[1].score >= e.score
         THEN <<sorted[1]>> \o InsertByScore(Tail(sorted), e)
         ELSE <<e>> \o sorted

RECURSIVE SortByScore(_, _)
SortByScore(scored, n) ==
    IF n = 0 THEN <<>> ELSE InsertByScore(SortByScore(scored, n - 1), scored[n])

SortedZones(scored) == [i \in 1..Len(scored) |-> SortByScore(scored, Len(scored))[i].tz]

\* How filterTimezones ended: it threw, or it assigned list to
\* filteredTimezones.
Thrown == [thrown |-> TRUE, list |-> <<>>]

Assigned(list) == [thrown |-> FALSE, list |-> list]

\* filterTimezones past the trimming.
FilterTrimmed_NoBlankCase(q, all) ==
    IF NotIterable(q) THEN Thrown
    ELSE Assigned(SortedZones(ScoredFrom(q, AbbrevLookup(q), all, 1)))
FilterTrimmed(q, all) ==
    IF q = "" THEN Assigned(all)
    ELSE IF NotIterable(q) THEN Thrown
    ELSE Assigned(SortedZones(ScoredFrom(q, AbbrevLookup(q), all, 1)))

filterTimezones(query, all) == FilterTrimmed(Trim(ToLowerCase(query)), all)

\* The catalogs populateTimezones can leave: zones of the host's list, in
\* its (alphabetical) order, or the fallback list.
HostZones ==
    <<"Africa/Johannesburg", "America/Chicago", "America/Halifax", "America/New_York",
      "America/St_Johns", "Asia/Jayapura", "Asia/Kolkata", "Asia/Makassar", "Asia/Shanghai",
      "Australia/Brisbane", "Australia/Melbourne", "Australia/Sydney", "Europe/Helsinki",
      "Europe/Lisbon">>

FallbackZones ==
    <<"UTC", "America/New_York", "America/Chicago", "America/Denver",
      "America/Los_Angeles", "Europe/London", "Europe/Berlin", "Europe/Helsinki",
      "Asia/Tokyo", "Asia/Shanghai", "Asia/Kolkata", "Australia/Sydney">>

\* What is typed into the search field: every key of the table in lower and
\* upper case, blank texts, and fragments of zone names.
Queries ==
    Keys \cup {ToUpperCase(k) : k \in Keys}
    \cup {"", " ", "  ", " Aest ", "AeDt", "nyc", "new", "New York", "new_york", "york",
          "a", "/", "asia", "SYD", "ldn", "zzz", "st", "au/s", "constructor", "__proto__",
          "eu", "e/l", "utcx"}

\* The state the search field is in after populateTimezones.
\* The offsets the calendar service reports at the model's wall clock, in
\* January 2024, for the zones of the catalogs.
OffsetAtClock(z) ==
    CASE z \in {"Europe/London", "Europe/Lisbon"} -> 0
      [] z = "Europe/Berlin" -> 60
      [] z = "Africa/Johannesburg" -> 120
      [] z \in {"Asia/Shanghai", "Asia/Makassar"} -> 480
      [] z \in {"Asia/Tokyo", "Asia/Jayapura"} -> 540
      [] z = "Australia/Brisbane" -> 600
      [] z \in {"Australia/Sydney", "Australia/Melbourne"} -> 660
      [] z = "America/St_Johns" -> 0 - 210
      [] z = "America/Halifax" -> 0 - 240
      [] z = "America/New_York" -> 0 - 300
      [] z = "America/Chicago" -> 0 - 360
      [] z = "America/Denver" -> 0 - 420
      [] z = "America/Los_Angeles" -> 0 - 480
      [] OTHER -> ZoneOffset(z, Clock)

\* getUTCOffsetString(date, tz), from diffMin on.
OffsetString(diffMin) ==
    IF diffMin = 0 THEN "+0"
    ELSE (IF diffMin > 0 THEN "+" ELSE "-")
         \o IntToString((IF diffMin < 0 THEN 0 - diffMin ELSE diffMin) \div 60)
         \o (IF (IF diffMin < 0 THEN 0 - diffMin ELSE diffMin) % 60 # 0
             THEN ":" \o PadStart(IntToString((IF diffMin < 0 THEN 0 - diffMin ELSE diffMin) % 60), 2)
             ELSE "")

\* formatTzDisplay(tz), at the model's wall clock.
formatTzDisplay(tz) == tz \o " (UTC" \o OffsetString(OffsetAtClock(tz)) \o ")"

\* The dropdown before any event: populateTimezones has filled the field
\* and the list of candidates, and nothing is rendered yet.
SearchIdle ==
    /\ allTimezones = HostZones
    /\ tzQuery = ""
    /\ tzSearchValue = formatTzDisplay(currentTimezone)
    /\ tzItems = <<>>
    /\ tzFocused = FALSE
    /\ closePending = FALSE
    /\ filteredTimezones = allTimezones
    /\ tzOpen = FALSE
    /\ highlightedIndex = 0 - 1

\* '—', the text of an output row that shows nothing.
EmDash == "\\u2014"

\* The labels as the page shows them before any detection run.
LabelsIdle ==
    /\ detected = EmDash
    /\ feedback = ""

\* No timer has been set.
TimersIdle ==
    /\ timers = {}
    /\ debounceTimer = 0
    /\ relativeTimer = Null
    /\ timerSeq = 0
    /\ lastRun = None

(***************************************************************************)
(* The state machines                                                      *)
(***************************************************************************)

\* Detection: a text is in the input field, and the detection run parses it.
InitParse ==
    /\ shape \in Shapes
    /\ input = shape.text
    /\ dateFormat \in {"us", "eu"}
    /\ hostOffset \in HostOffsets
    /\ now \in IF shape.kind = "timeOnly" THEN Clocks ELSE {Clock}
    /\ result = None
    /\ currentDate = None
    /\ currentTimezone = "UTC"
    /\ outputs = None
    /\ SearchIdle
    /\ TimersIdle
    /\ LabelsIdle

\* The detection run of onInput: parseTimestamp(input.value).
Detect ==
    /\ result = None
    /\ result' = parseTimestamp(input, dateFormat, now, hostOffset)
    /\ UNCHANGED <<input, shape, dateFormat, hostOffset, now, currentDate, currentTimezone,
                   outputs>>
    /\ UNCHANGED <<searchVars, timerVars, labelVars>>

\* The date-format toggle: dateFormat flips and the input is parsed anew.
ToggleDateFormat ==
    /\ result # None
    /\ dateFormat' = IF dateFormat = "us" THEN "eu" ELSE "us"
    /\ result' = None
    /\ UNCHANGED <<input, shape, hostOffset, now, currentDate, currentTimezone, outputs>>
    /\ UNCHANGED <<searchVars, timerVars, labelVars>>

NextParse == Detect \/ ToggleDateFormat

SpecParse == InitParse /\ [][NextParse]_vars

\* if (currentDate) updateOutputs(), at the end of selectTimezone: the rows
\* after the zone z was selected while out was on display.
RenderedAfterSelect_Stale(date, z, out, nowv) == out
RenderedAfterSelect(date, z, out, nowv) ==
    IF date # Null THEN RenderOutputs(date, z, nowv) ELSE out

\* closeTzDropdown(), when the selected zone is tz.
closeTzDropdown(tz) ==
    /\ tzOpen' = FALSE
    /\ tzSearchValue' = formatTzDisplay(tz)
    /\ highlightedIndex' = 0 - 1

\* selectTimezone(tz). tzSearch.select() selects the text and leaves the
\* focus where it is.
selectTimezone(tz) ==
    /\ currentTimezone' = tz
    /\ closeTzDropdown(tz)
    /\ outputs' = RenderedAfterSelect(currentDate, tz, outputs, now)

\* Rendering: an instant is current, a timezone is selected, and updateOutputs
\* renders the rows.
InitRender ==
    /\ shape = NoShape
    /\ input = ""
    /\ dateFormat = "us"
    /\ hostOffset = 0
    /\ now = Clock
    /\ result = None
    /\ currentDate \in Instants
    /\ currentTimezone \in {z \in Zones : YearFromDay(currentDate.day) >= ZoneSince(z)}
    /\ outputs = None
    /\ SearchIdle
    /\ TimersIdle
    /\ LabelsIdle

UpdateOutputs ==
    /\ outputs = None
    /\ outputs' = RenderOutputs(currentDate, currentTimezone, now)
    /\ UNCHANGED <<input, shape, dateFormat, hostOffset, now, result, currentDate,
                   currentTimezone>>
    /\ UNCHANGED <<searchVars, timerVars, labelVars>>

\* selectTimezone(tz): another zone is chosen for the instant on display.
SelectTimezone ==
    /\ outputs # None
    /\ \E z \in Zones :
          /\ z # currentTimezone
          /\ YearFromDay(currentDate.day) >= ZoneSince(z)
          /\ selectTimezone(z)
    /\ UNCHANGED <<input, shape, dateFormat, hostOffset, now, result, currentDate>>
    /\ UNCHANGED <<allTimezones, tzQuery, tzItems, tzFocused, closePending, filteredTimezones,
                   timerVars, labelVars>>

NextRender == UpdateOutputs \/ SelectTimezone

SpecRender == InitRender /\ [][NextRender]_vars

\* The timezone search: texts are typed into the search field and the arrow
\* keys move the highlight.
InitSearch ==
    /\ shape = NoShape
    /\ input = ""
    /\ dateFormat = "us"
    /\ hostOffset = 0
    /\ now = Clock
    /\ result = None
    /\ currentDate = Null
    /\ currentTimezone = "UTC"
    /\ outputs = None
    /\ allTimezones \in {HostZones, FallbackZones}
    /\ tzQuery = ""
    /\ tzSearchValue = formatTzDisplay(currentTimezone)
    /\ tzItems = <<>>
    /\ tzFocused = FALSE
    /\ closePending = FALSE
    /\ filteredTimezones = allTimezones
    /\ tzOpen = FALSE
    /\ highlightedIndex = 0 - 1
    /\ TimersIdle
    /\ LabelsIdle

\* The list and the highlight after filterTimezones ended with res, where
\* list and highlight are what they were when it was called.
AfterFilter(res, list, highlight) ==
    IF res.thrown THEN [list |-> list, highlight |-> highlight]
    ELSE [list |-> res.list, highlight |-> IF Len(res.list) > 0 THEN 0 ELSE 0 - 1]

\* The 'input' listener of tzSearch: a closed dropdown is opened over the
\* whole catalog, then filterTimezones(tzSearch.value) runs. Every assignment
\* of the list is followed by renderTzList.
SearchInput(after) ==
    /\ filteredTimezones' = after.list
    /\ tzItems' = after.list
    /\ highlightedIndex' = after.highlight

\* filterTimezones for the texts typed over the catalogs, evaluated once.
Filtered ==
    [all \in {HostZones, FallbackZones} |-> [text \in Queries |-> filterTimezones(text, all)]]

\* The text is typed into the focused field.
TypeQuery(text) ==
    /\ tzFocused
    /\ tzQuery' = text
    /\ tzSearchValue' = text
    /\ SearchInput(AfterFilter(Filtered[allTimezones][text],
                               IF tzOpen THEN filteredTimezones ELSE allTimezones,
                               IF tzOpen THEN highlightedIndex ELSE 0 - 1))
    /\ tzOpen' = TRUE
    /\ UNCHANGED <<input, shape, dateFormat, hostOffset, now, result, currentDate,
                   currentTimezone, outputs, allTimezones, tzFocused, closePending,
                   timerVars, labelVars>>

TzInput == \E text \in Queries : TypeQuery(text)

\* The 'focus' listener of tzSearch: the text is selected, nothing opens.
Focus ==
    /\ ~tzFocused
    /\ tzFocused' = TRUE
    /\ UNCHANGED <<input, shape, dateFormat, hostOffset, now, result, currentDate,
                   currentTimezone, outputs, allTimezones, tzQuery, tzSearchValue, tzItems,
                   closePending, filteredTimezones, tzOpen, highlightedIndex, timerVars,
                   labelVars>>

MathMin(a, b) == IF a <= b THEN a ELSE b

\* The 'keydown' listener of tzSearch, for ArrowDown and ArrowUp: items is
\* tzList.children.
ArrowDown ==
    /\ tzFocused
    /\ highlightedIndex' = MathMin(highlightedIndex + 1, Len(tzItems) - 1)
    /\ UNCHANGED <<input, shape, dateFormat, hostOffset, now, result, currentDate,
                   currentTimezone, outputs, allTimezones, tzQuery, tzSearchValue, tzItems,
                   tzFocused, closePending, filteredTimezones, tzOpen, timerVars, labelVars>>

ArrowUp ==
    /\ tzFocused
    /\ highlightedIndex' = MathMax(highlightedIndex - 1, 0)
    /\ UNCHANGED <<input, shape, dateFormat, hostOffset, now, result, currentDate,
                   currentTimezone, outputs, allTimezones, tzQuery, tzSearchValue, tzItems,
                   tzFocused, closePending, filteredTimezones, tzOpen, timerVars, labelVars>>

NextSearch == Focus \/ TzInput \/ ArrowDown \/ ArrowUp

SpecSearch == InitSearch /\ [][NextSearch]_vars

\* The dropdown: besides typing and the arrow keys, Enter, Escape, the loss
\* of the focus, the close it schedules, and the mouse over the open list.

\* The texts typed while the dropdown's events are explored.
DropdownQueries == {"", "ldn", "ist", "zzz"}

TzInputFew == \E text \in DropdownQueries : TypeQuery(text)

\* What the dropdown's events leave alone.
DropdownFrame ==
    UNCHANGED <<input, shape, dateFormat, hostOffset, now, result, currentDate, allTimezones,
                tzQuery, tzItems, filteredTimezones, timerVars, labelVars>>

\* The 'keydown' listener for Enter.
Enter ==
    /\ tzFocused
    /\ IF highlightedIndex >= 0 /\ highlightedIndex < Len(filteredTimezones)
       THEN selectTimezone(filteredTimezones[highlightedIndex + 1])
       ELSE UNCHANGED <<currentTimezone, outputs, tzOpen, tzSearchValue, highlightedIndex>>
    /\ UNCHANGED <<tzFocused, closePending>>
    /\ DropdownFrame

\* The 'keydown' listener for Escape: closeTzDropdown(); tzSearch.blur(), and
\* the 'blur' listener schedules a closeTzDropdown.
EscapeKey ==
    /\ tzFocused
    /\ closeTzDropdown(currentTimezone)
    /\ tzFocused' = FALSE
    /\ closePending' = TRUE
    /\ UNCHANGED <<currentTimezone, outputs>>
    /\ DropdownFrame

\* The 'blur' listener: setTimeout(closeTzDropdown, 150).
Blur ==
    /\ tzFocused
    /\ tzFocused' = FALSE
    /\ closePending' = TRUE
    /\ UNCHANGED <<currentTimezone, outputs, tzOpen, tzSearchValue, highlightedIndex>>
    /\ DropdownFrame

\* The scheduled closeTzDropdown runs.
CloseFires ==
    /\ closePending
    /\ closePending' = FALSE
    /\ closeTzDropdown(currentTimezone)
    /\ UNCHANGED <<currentTimezone, outputs, tzFocused>>
    /\ DropdownFrame

\* The 'mouseenter' listener of the item i of the open list: setHighlight(i).
MouseEnter ==
    /\ tzOpen
    /\ \E i \in 1..Len(tzItems) : highlightedIndex' = i - 1
    /\ UNCHANGED <<currentTimezone, outputs, tzOpen, tzSearchValue, tzFocused, closePending>>
    /\ DropdownFrame

\* The 'mousedown' listener of an item of the open list: selectTimezone(tz).
MouseDown ==
    /\ tzOpen
    /\ \E i \in 1..Len(tzItems) : selectTimezone(tzItems[i])
    /\ UNCHANGED <<tzFocused, closePending>>
    /\ DropdownFrame

NextDropdown ==
    \/ Focus
    \/ TzInputFew
    \/ ArrowDown
    \/ ArrowUp
    \/ Enter
    \/ EscapeKey
    \/ Blur
    \/ CloseFires
    \/ MouseEnter
    \/ MouseDown

SpecDropdown == InitSearch /\ [][NextDropdown]_vars

\* The page: texts are typed, buttons are clicked, keys are pressed, the
\* pending detection run fires, and time passes.

\* grayOut(): every output row shows the dash.
grayOut ==
    [unixS |-> EmDash, unixMs |-> EmDash, iso |-> EmDash, isoTz |-> EmDash, rfc |-> EmDash,
     sql |-> EmDash, relative |-> EmDash, human |-> EmDash, offsetMinutes |-> Null]

\* startRelativeTimer(): what it leaves in relativeTimer. The function body
\* is empty; the earlier revision registered an interval of 30 seconds.
startRelativeTimer_Interval == [interval |-> 30000]
startRelativeTimer == Null

\* The callback of such an interval, run when time has passed: it rewrites
\* the relative row of a displayed instant.
RelativeRefresh(timer, date, out, nowv) ==
    IF timer # Null /\ date # Null
    THEN [out EXCEPT !.relative = formatRelative(date, nowv)]
    ELSE out

\* clearTimeout(id) on the set of pending callbacks.
clearTimeout_Ignored(pending, id) == pending
clearTimeout(pending, id) == {t \in pending : t.id # id}

\* Most timers a behaviour sets, and most steps of the clock.
MaxTimers == 4
MaxTicks == 2

\* The clock advances by this many milliseconds at a step.
TickMs == 30000

\* The texts typed into the input field.
UITexts == {"", "  ", "now", "1700000000", "01/02/2024", "13/02/2024", "soon"}

\* The zones picked in the dropdown.
UIZones == {"UTC", "Asia/Kolkata"}

InitUI ==
    /\ shape = NoShape
    /\ input = "now"
    /\ dateFormat \in {"us", "eu"}
    /\ hostOffset = 0
    /\ now = Clock
    /\ result = None
    /\ currentDate = Null
    /\ currentTimezone = "UTC"
    /\ outputs = None
    /\ SearchIdle
    /\ timers = {[id |-> 1, text |-> "now"]}
    /\ debounceTimer = 1
    /\ relativeTimer = startRelativeTimer
    /\ timerSeq = 1
    /\ lastRun = None
    /\ LabelsIdle

\* onInput(): the pending detection run is cancelled and a new one is
\* scheduled. A pending run is kept with its id and, for reference, the text
\* the input field held when it was scheduled.
onInput(text) ==
    /\ timerSeq < MaxTimers
    /\ timerSeq' = timerSeq + 1
    /\ debounceTimer' = timerSeq + 1
    /\ timers' = clearTimeout(timers, debounceTimer)
                     \cup {[id |-> timerSeq + 1, text |-> text]}

\* The 'input' listener of the input field: the text was edited.
TypeInput ==
    /\ \E text \in UITexts :
          /\ text # input
          /\ input' = text
          /\ onInput(text)
    /\ UNCHANGED <<shape, dateFormat, hostOffset, now, result, currentDate, currentTimezone,
                   outputs, searchVars, relativeTimer, lastRun, labelVars>>

\* The Now button: input.value = new Date().toISOString(); onInput().
NowButton ==
    /\ input' = formatISO(now)
    /\ onInput(formatISO(now))
    /\ UNCHANGED <<shape, dateFormat, hostOffset, now, result, currentDate, currentTimezone,
                   outputs, searchVars, relativeTimer, lastRun, labelVars>>

\* The date-format toggle: onInput() only if the input is not blank.
ToggleClick ==
    /\ dateFormat' = IF dateFormat = "us" THEN "eu" ELSE "us"
    /\ IF Trim(input) # ""
       THEN onInput(input)
       ELSE UNCHANGED <<timers, debounceTimer, timerSeq>>
    /\ UNCHANGED <<input, shape, hostOffset, now, result, currentDate, currentTimezone,
                   outputs, searchVars, relativeTimer, lastRun, labelVars>>

\* The text the detection run of the timer t works on: input.value, read
\* when the callback runs.
RunInput_AsScheduled(t, value) == t.text
RunInput(t, value) == value

\* detectedEl.textContent after a detection run with the parse result r.
DetectedLabel(r) == IF r.date # Null THEN r.format ELSE EmDash

\* The argument of setFeedback after a detection run with the parse result r.
FeedbackNote_Silent(r) == ""
FeedbackNote(r) == IF r.date # Null THEN "" ELSE "Unrecognized format"

\* The callback's effect for the parse result r.
ShowResult(r) ==
    /\ result' = r
    /\ currentDate' = r.date
    /\ detected' = DetectedLabel(r)
    /\ feedback' = FeedbackNote(r)
    /\ outputs' = IF r.date # Null THEN RenderOutputs(r.date, currentTimezone, now)
                  ELSE grayOut

\* The callback of onInput for the text val.
DetectionRun(val) ==
    IF Trim(val) = ""
    THEN /\ result' = None
         /\ currentDate' = Null
         /\ detected' = EmDash
         /\ feedback' = ""
         /\ outputs' = grayOut
    ELSE ShowResult(parseTimestamp(val, dateFormat, now, hostOffset))

\* A pending detection run fires.
RunFires ==
    /\ \E t \in timers :
          /\ timers' = timers \ {t}
          /\ lastRun' = [timer |-> t, val |-> RunInput(t, input), mode |-> dateFormat]
          /\ DetectionRun(RunInput(t, input))
    /\ UNCHANGED <<input, shape, dateFormat, hostOffset, now, currentTimezone, searchVars,
                   debounceTimer, relativeTimer, timerSeq>>

\* Escape outside the timezone field: the input and the display are cleared.
EscapeClear ==
    /\ input' = ""
    /\ currentDate' = Null
    /\ detected' = EmDash
    /\ feedback' = ""
    /\ outputs' = grayOut
    /\ UNCHANGED <<shape, dateFormat, hostOffset, now, result, currentTimezone, searchVars,
                   timerVars>>

\* selectTimezone(tz) from the dropdown.
PickTimezone ==
    /\ \E z \in UIZones :
          /\ z # currentTimezone
          /\ selectTimezone(z)
    /\ UNCHANGED <<input, shape, dateFormat, hostOffset, now, result, currentDate,
                   allTimezones, tzQuery, tzItems, tzFocused, closePending,
                   filteredTimezones, timerVars, labelVars>>

\* Time passes with no user event.
Tick ==
    /\ TVLess(now, TVAdd(Clock, MaxTicks * TickMs))
    /\ now' = TVAdd(now, TickMs)
    /\ outputs' = RelativeRefresh(relativeTimer, currentDate, outputs, now')
    /\ UNCHANGED <<input, shape, dateFormat, hostOffset, result, currentDate,
                   currentTimezone, searchVars, timerVars, labelVars>>

NextUI ==
    \/ TypeInput
    \/ NowButton
    \/ ToggleClick
    \/ RunFires
    \/ EscapeClear
    \/ PickTimezone
    \/ Tick

SpecUI == InitUI /\ [][NextUI]_vars


(***************************************************************************)
(* The claims                                                              *)
(***************************************************************************)

NoMatch(r) == r.date = Null /\ r.format = "null"

\* The rule that gave the result of a successful detection.
MatchedRule(r) == r.parsed[Len(r.parsed)]

RECURSIVE StripLeadingZeros(_)
StripLeadingZeros(ds) ==
    IF Len(ds) > 1 /\ Char(ds, 1) = "0" THEN StripLeadingZeros(SubSeq(ds, 2, Len(ds))) ELSE ds

\* The decimal numeral of the number written with sign neg and digits ds.
Canonical(neg, ds) ==
    LET z == StripLeadingZeros(ds)
    IN  IF z = "0" THEN "0" ELSE (IF neg THEN "-" ELSE "") \o z

\* a <= b for two runs of digits of the same length.
RECURSIVE DigitsLeq(_, _)
DigitsLeq(a, b) ==
    IF a = "" THEN TRUE
    ELSE IF DigitValue(Char(a, 1)) # DigitValue(Char(b, 1))
         THEN DigitValue(Char(a, 1)) < DigitValue(Char(b, 1))
         ELSE DigitsLeq(SubSeq(a, 2, Len(a)), SubSeq(b, 2, Len(b)))

\* The number written with digits ds is at most 8.64e15, the largest time value.
Representable(ds) ==
    LET z == StripLeadingZeros(ds)
    IN  Len(z) < 16 \/ (Len(z) = 16 /\ DigitsLeq(z, "8640000000000000"))

\* C1: an optionally signed decimal string of 1 to 12 digits is detected as
\* 'Unix (s)' with instant = value * 1000, and one of 13 or more digits as
\* 'Unix (ms)' with instant = value when the value is a representable instant;
\* the sign does not count as a digit.
C1_UnixByDigitCount ==
    (result # None /\ shape.digits # "") =>
        IF Len(shape.digits) <= 12
        THEN /\ result.format = "Unix (s)"
             /\ IsTV(result.date)
             /\ formatUnixMs(result.date) = Canonical(shape.neg, shape.digits \o "000")
        ELSE Representable(shape.digits) =>
                /\ result.format = "Unix (ms)"
                /\ IsTV(result.date)
                /\ formatUnixMs(result.date) = Canonical(shape.neg, shape.digits)

\* A negative number of exactly 13 digits has been detected as milliseconds.
C1_Witness ==
    /\ result # None
    /\ shape.neg
    /\ Len(shape.digits) = 13
    /\ result.format = "Unix (ms)"
    /\ formatUnixMs(result.date) = "-1000000000000"

\* C2: an empty or white-space-only input gives {date: null, format: null}
\* with no recognizer and no parser evaluated; a text no recognizer accepts
\* gives the same result; and a result has a date exactly when it has a label.
C2_NoMatchResult ==
    result # None =>
        /\ shape.kind = "blank" =>
              NoMatch(result) /\ result.tested = <<>> /\ result.parsed = <<>>
        /\ (\A i \in 1..Len(FORMATS) : ~Test(FORMATS[i].test, Trim(input))) =>
              NoMatch(result) /\ result.parsed = <<>>
        /\ (result.date = Null) <=> (result.format = "null")
        /\ result.date # Null => IsTV(result.date)

\* A white-space-only input has been through detection.
C2_Witness ==
    /\ result # None
    /\ shape.kind = "blank"
    /\ Len(input) = 3
    /\ NoMatch(result)
    /\ result.tested = <<>>

SlashMeaning(sh, monthFirst) ==
    IF monthFirst THEN CivilUTC(sh.y, sh.a, sh.b, sh.h, sh.mi, sh.sec, 0)
    ELSE CivilUTC(sh.y, sh.b, sh.a, sh.h, sh.mi, sh.sec, 0)

\* The slash date sh with its first two groups exchanged.
SwappedText(sh) ==
    IntToString(sh.b) \o "/" \o P2(sh.a) \o "/" \o P4(sh.y)
    \o (IF sh.timed THEN SubSeq(sh.text, IndexOfChar(sh.text, " "), Len(sh.text)) ELSE "")

\* C4: a slash date a/b/YYYY[ hh:mm[:ss]] with a and b in 1..12 (and a time of
\* day in range) is the UTC instant of month a, day b under US and of day a,
\* month b under EU; so a/b/YYYY under US equals b/a/YYYY under EU, and the two
\* modes differ on the same text when a # b.
C4_SlashModes ==
    (/\ result # None
     /\ shape.kind = "slash"
     /\ shape.a \in 1..12 /\ shape.b \in 1..12
     /\ shape.h <= 23 /\ shape.mi <= 59 /\ shape.sec <= 59) =>
        LET other == IF dateFormat = "us" THEN "eu" ELSE "us"
        IN  /\ result.date = SlashMeaning(shape, dateFormat = "us")
            /\ result.date = parseTimestamp(SwappedText(shape), other, now, hostOffset).date
            /\ shape.a # shape.b =>
                  result.date # parseTimestamp(input, other, now, hostOffset).date

\* C5: an accepted input that carries no zone indicator (ISO 8601, compact ISO,
\* RFC 2822, SQL/log datetime, date only, named month) is the written civil
\* fields read in UTC, whatever the host's timezone is.
C5_NoZoneMeansUTC ==
    (/\ result # None
     /\ IsTV(result.date)
     /\ ~shape.zoned
     /\ result.format \in {"ISO 8601", "Compact ISO 8601", "RFC 2822", "SQL / Log datetime",
                           "Date (YYYY-MM-DD)", "Date (DD Mon YYYY)", "Date (Mon DD, YYYY)"}) =>
        result.date = CivilUTC(shape.y, shape.mo, shape.d, shape.h, shape.mi, shape.sec,
                               shape.ms)

\* C6: an input of a rule that takes a time of day (slash datetime, YYYY/MM/DD,
\* DD.MM.YYYY, DD-MM-YYYY, time only) whose hour is over 23 or whose minute or
\* second is over 59 never yields an instant.
C6_TimeOfDayValidated ==
    (/\ result # None
     /\ shape.kind \in {"slash", "slashYMD", "dot", "dash", "timeOnly"}
     /\ shape.timed
     /\ (shape.h > 23 \/ shape.mi > 59 \/ shape.sec > 59)) =>
        NoMatch(result)

\* C7: an 8-digit input YYYYMMDD with a valid month and day is detected as
\* 'Date (YYYYMMDD)', midnight UTC of that date.
C7_CompactDate ==
    (/\ result # None
     /\ shape.kind = "compactDate"
     /\ shape.mo \in 1..12
     /\ shape.d \in 1..DaysInMonth(shape.y, shape.mo - 1)) =>
        /\ result.format = "Date (YYYYMMDD)"
        /\ result.date = CivilUTC(shape.y, shape.mo, shape.d, 0, 0, 0, 0)

\* C8: the mode-sensitive indication of a successful detection, isSlashDate of
\* the matched label, is true exactly when the matched rule is one of the two
\* N/N/YYYY rules, whose result depends on dateFormat.
C8_HintOnlyForSlashRules ==
    (result # None /\ IsTV(result.date)) =>
        (isSlashDate(result.format)
            <=> FORMATS[MatchedRule(result)].parse \in {"parseSlashDate", "parseSlashDateTime"})

\* C9: when the calendar service reports for instant x in zone z the civil
\* fields of x + k minutes, getOffsetMinutes(x, z) is k, for every x.
C9_OffsetIsReported ==
    outputs # None => outputs.offsetMinutes = ZoneOffset(currentTimezone, currentDate)

\* YYYY-MM-DDThh:mm:ss.mmm followed by a sign and hh:mm.
IsoWithOffsetRe ==
    Seq_(<<D(4), Ch("-"), D(2), Ch("-"), D(2), Ch("T"), D(2), Ch(":"), D(2), Ch(":"), D(2),
           Ch("."), D(3), Cls({"+", "-"}), D(2), Ch(":"), D(2)>>)

\* The millisecond part of a time value, in 0..999, as three digits.
Millis3(d) == PadStart(IntToString(d.ms % 1000), 3)

\* C11: for every instant and zone, isoWithOffset has the shape
\* YYYY-MM-DDThh:mm:ss.mmm+hh:mm (or -hh:mm), where mmm is the three-digit
\* millisecond part of the instant in 0..999, the one isoUtc shows; also before
\* the epoch.
C11_IsoWithOffsetShape ==
    outputs # None =>
        /\ Test(IsoWithOffsetRe, outputs.isoTz)
        /\ SubSeq(outputs.isoTz, 21, 23) = Millis3(currentDate)
        /\ SubSeq(outputs.iso, Len(outputs.iso) - 3, Len(outputs.iso) - 1) = Millis3(currentDate)

\* C12: the sql output ends with '.mmm' exactly when the instant is not a whole
\* number of seconds (negative instants included), and then mmm is the
\* three-digit millisecond part, 001..999.
C12_SqlFraction ==
    outputs # None =>
        IF currentDate.ms % 1000 = 0
        THEN ~Includes(outputs.sql, ".")
        ELSE /\ Len(outputs.sql) > 4
             /\ SubSeq(outputs.sql, Len(outputs.sql) - 3, Len(outputs.sql))
                    = "." \o Millis3(currentDate)

\* '<N> <unit>', the unit singular exactly when N = 1.
Counted(n, unit) == IntToString(n) \o " " \o unit \o (IF n = 1 THEN "" ELSE "s")

\* The bucket table for a difference of days whole days and ms further
\* milliseconds: seconds < 5, seconds < 60, minutes < 60, hours < 24, days < 30,
\* months < 12 (days / 30.44), else years (days / 365.25).
BucketTable(days, ms) ==
    IF days = 0 /\ ms < 5000 THEN "just now"
    ELSE IF days = 0 /\ ms < 60000 THEN Counted(ms \div 1000, "second")
    ELSE IF days = 0 /\ ms < 3600000 THEN Counted(ms \div 60000, "minute")
    ELSE IF days = 0 THEN Counted(ms \div 3600000, "hour")
    ELSE IF days < 30 THEN Counted(days, "day")
    ELSE IF (days * 100) \div 3044 < 12 THEN Counted((days * 100) \div 3044, "month")
    ELSE Counted((days * 100) \div 36525, "year")

\* C13: the relative output is the bucket table applied to the whole seconds of
\* |now - instant|: 'just now' below 5 s with no affix, else '<N> <unit>' followed
\* by ' ago' for a past instant and preceded by 'in ' for a future one; 59 s
\* gives '59 seconds' and 60 s gives '1 minute'.
C13_RelativeBuckets ==
    outputs # None =>
        LET diff == AbsDiff(now, currentDate)
            text == BucketTable(diff.day, diff.ms)
        IN  /\ outputs.relative =
                  IF text = "just now" THEN text
                  ELSE IF TVLess(now, currentDate) THEN "in " \o text ELSE text \o " ago"
            /\ (diff.day = 0 /\ diff.ms \div 1000 = 59) =>
                  outputs.relative \in {"59 seconds ago", "in 59 seconds"}
            /\ (diff.day = 0 /\ diff.ms \div 1000 = 60) =>
                  outputs.relative \in {"1 minute ago", "in 1 minute"}

\* An instant exactly 365 days in the past has been rendered: the last day of
\* the months bucket.
C13_Witness ==
    /\ outputs # None
    /\ currentDate = TV(now.day - 365, now.ms)
    /\ outputs.relative = "11 months ago"

\* a <= b for two time values.
TVLeq(a, b) == ~TVLess(b, a)

\* C10: unixSeconds is the integer s with s * 1000 <= x < (s + 1) * 1000 (the
\* floor, for negative x too), and unixMillis is x itself.
C10_UnixFloor ==
    outputs # None =>
        LET sec == ParseIntBig(outputs.unixS)
            lo == TVTimes1000(sec)
        IN  /\ TVLeq(lo, currentDate)
            /\ TVLess(currentDate, TVAdd(lo, 1000))
            /\ ParseIntBig(outputs.unixMs) = currentDate

\* A pre-epoch instant that is not a whole number of seconds has been rendered.
C10_Witness ==
    /\ outputs # None
    /\ currentDate.day < 0
    /\ currentDate.ms % 1000 # 0
    /\ outputs.unixS = "-1"
    /\ outputs.unixMs = "-1"


\* C20: round trip.  For an instant whose UTC year is in 0000..9999 and a zone
\* with a whole-minute offset, parseTimestamp of the rendered isoWithOffset, and
\* of the rendered isoUtc, is labelled 'ISO 8601' and is the instant itself.
C20_IsoRoundTrip ==
    (/\ outputs # None
     /\ YearFromDay(currentDate.day) \in 0..9999) =>
        /\ parseTimestamp(outputs.isoTz, dateFormat, now, hostOffset).format = "ISO 8601"
        /\ parseTimestamp(outputs.isoTz, dateFormat, now, hostOffset).date = currentDate
        /\ parseTimestamp(outputs.iso, dateFormat, now, hostOffset).format = "ISO 8601"
        /\ parseTimestamp(outputs.iso, dateFormat, now, hostOffset).date = currentDate

\* The positions of t (0 for "before the text") at which the first n
\* characters of q can end when matched in order.
RECURSIVE EndPositions(_, _, _)
EndPositions(q, t, n) ==
    IF n = 0 THEN {0}
    ELSE {j \in 1..Len(t) :
            /\ Char(t, j) = Char(q, n)
            /\ \E i \in EndPositions(q, t, n - 1) : i < j}

IsSubsequence(q, t) == EndPositions(q, t, Len(q)) # {}

\* The texts fuzzyScore is applied to: the zones of the catalog and their
\* abbreviations, and texts in which the first occurrence of a character is
\* not the one a match needs.
ScoredTexts ==
    Elements(allTimezones) \cup Keys \cup {"aa/ast", "New York", "c_s-t cn", "ydney/Syd"}

\* C15: for a non-empty query q and a text t, fuzzyScore(q, t) > 0 exactly
\* when lower-cased q is an in-order subsequence of lower-cased t, and the
\* score does not depend on the letter case of q or t.
C15_FuzzyIffSubsequence ==
    tzQuery # "" =>
        \A t \in ScoredTexts :
            /\ (fuzzyScore(tzQuery, t) > 0)
                   <=> IsSubsequence(ToLowerCase(tzQuery), ToLowerCase(t))
            /\ fuzzyScore(ToUpperCase(tzQuery), t) = fuzzyScore(tzQuery, t)
            /\ fuzzyScore(ToLowerCase(tzQuery), ToUpperCase(t)) = fuzzyScore(tzQuery, t)

\* 'ldn' was typed over the fallback catalog: it is scattered over
\* Europe/London and Australia/Sydney and over no other zone.
C15_Witness ==
    /\ tzQuery = "ldn"
    /\ filteredTimezones = <<"Europe/London", "Australia/Sydney">>
    /\ ~ Includes("europe/london", "ldn")

MaxOf(S) == CHOOSE x \in S : \A y \in S : y <= x

\* The final score of the zone z for the trimmed, lower-cased query q: the
\* highest fuzzyScore among its identifier and the keys it is listed under,
\* and 50 more if it is listed under q.
FinalScore(q, z) ==
    MaxOf({fuzzyScore(q, z)}
          \cup {fuzzyScore(q, k) : k \in {k2 \in Keys : z \in Elements(AbbrevLookup(k2))}})
    + (IF z \in Elements(AbbrevLookup(q)) THEN 50 ELSE 0)

CatalogIndex(z) == CHOOSE i \in 1..Len(allTimezones) : allTimezones[i] = z

\* C16: for a non-blank query the list holds exactly the catalog zones of
\* final score above 0, each once, in non-increasing order of score, zones
\* of equal score in catalog order.
C16_RankedList ==
    Trim(ToLowerCase(tzQuery)) # "" =>
        /\ Elements(filteredTimezones)
               = {z \in Elements(allTimezones) : FinalScore(Trim(ToLowerCase(tzQuery)), z) > 0}
        /\ \A i, j \in 1..Len(filteredTimezones) :
              i < j =>
                 /\ filteredTimezones[i] # filteredTimezones[j]
                 /\ FinalScore(Trim(ToLowerCase(tzQuery)), filteredTimezones[i])
                        >= FinalScore(Trim(ToLowerCase(tzQuery)), filteredTimezones[j])
                 /\ FinalScore(Trim(ToLowerCase(tzQuery)), filteredTimezones[i])
                        = FinalScore(Trim(ToLowerCase(tzQuery)), filteredTimezones[j])
                    => CatalogIndex(filteredTimezones[i]) < CatalogIndex(filteredTimezones[j])

\* The highest score any text can get for the query k: 6 for the first
\* character, and for a later one 9 if the character before it in k is a
\* separator (it can then be both adjacent and behind a separator), else 6.
RECURSIVE KeyCeiling(_, _)
KeyCeiling(k, n) ==
    IF n = 0 THEN 0
    ELSE KeyCeiling(k, n - 1)
         + (IF n > 1 /\ Char(k, n - 1) \in Separators THEN 9 ELSE 6)

\* C17: when the query is a key of the abbreviation table, in any letter
\* case, every catalog zone listed under it is in the list before every
\* catalog zone not listed under it; a zone not listed stays below 50, and
\* so would any other text.
C17_ListedZonesFirst ==
    ToLowerCase(tzQuery) \in Keys =>
        /\ \A z \in Elements(allTimezones) \cap Elements(AbbrevLookup(ToLowerCase(tzQuery))) :
              /\ z \in Elements(filteredTimezones)
              /\ FinalScore(ToLowerCase(tzQuery), z) > 50
        /\ \A i, j \in 1..Len(filteredTimezones) :
              (/\ filteredTimezones[i] \notin Elements(AbbrevLookup(ToLowerCase(tzQuery)))
               /\ filteredTimezones[j] \in Elements(AbbrevLookup(ToLowerCase(tzQuery))))
              => j < i
        /\ \A z \in Elements(allTimezones) \ Elements(AbbrevLookup(ToLowerCase(tzQuery))) :
              FinalScore(ToLowerCase(tzQuery), z) < 50
        /\ KeyCeiling(ToLowerCase(tzQuery), Len(tzQuery)) < 50

\* 'AST' was typed: America/Halifax, listed under 'ast', leads the list
\* although America/St_Johns matches the three letters with the higher
\* fuzzyScore.
C17_Witness ==
    /\ tzQuery = "AST"
    /\ Len(filteredTimezones) > 1
    /\ filteredTimezones[1] = "America/Halifax"
    /\ filteredTimezones[2] = "America/St_Johns"
    /\ fuzzyScore("ast", "America/St_Johns") > fuzzyScore("ast", "ast")

\* C18: for an empty or whitespace-only query the list is the whole catalog
\* in catalog order, and no step changes the catalog.
C18_BlankQueryFullCatalog ==
    /\ [](Trim(tzQuery) = "" => filteredTimezones = allTimezones)
    /\ [][allTimezones' = allTimezones]_vars

\* A whitespace-only query was typed into the open dropdown.
C18_Witness ==
    /\ tzQuery = "  "
    /\ tzOpen
    /\ filteredTimezones = allTimezones
    /\ highlightedIndex = 0

C19_OnePendingRun ==
    /\ [](Cardinality(timers) <= 1)
    /\ [][/\ timerSeq' # timerSeq => Cardinality(timers') = 1 /\ \A t \in timers' : t.id = timerSeq'
          /\ lastRun' # lastRun
               => /\ lastRun'.timer.id = debounceTimer
                  /\ lastRun'.val = input
                  /\ lastRun'.mode = dateFormat
                  /\ Trim(input) # "" => result' = parseTimestamp(input, dateFormat, now, hostOffset)
                  /\ Trim(input) = "" => currentDate' = Null]_vars

\* A run fired that was scheduled after two triggers had superseded their
\* predecessors; it was scheduled for the text 'now' and, the input having
\* been cleared meanwhile, ran on the empty text.
C19_Witness ==
    /\ lastRun # None
    /\ lastRun.timer.id >= 3
    /\ lastRun.timer.text = "now"
    /\ lastRun.val = ""
    /\ timers = {}

\* C21: a time-only input h:mm[:ss][ AM|PM] is detected as 'Time only', the
\* instant being the start of the UTC day of the wall clock plus H hours, m
\* minutes and s seconds (H the hour of the day the text means); it yields
\* NoMatch when H is over 23 or the minute or second is over 59.
C21_TimeOnlyToday ==
    (result # None /\ shape.kind = "timeOnly") =>
        IF shape.h > 23 \/ shape.mi > 59 \/ shape.sec > 59
        THEN NoMatch(result)
        ELSE /\ result.format = "Time only"
             /\ result.date
                    = TV(now.day, (shape.h * 3600 + shape.mi * 60 + shape.sec) * 1000)

\* '12:59:59 AM' was detected late on 29 February on a host where it is
\* already 1 March: it is 00:59:59 UTC of 29 February.
C21_Witness ==
    /\ result # None
    /\ input = "12:59:59 AM"
    /\ hostOffset = 120
    /\ now # Clock
    /\ result.date = CivilUTC(2024, 2, 29, 0, 59, 59, 0)

\* The month and the day a slash, year-first, dot or dash date resolves to:
\* for a slash date the groups dateFormat says, else the ones written.
ResolvedMonth ==
    IF shape.kind = "slash" THEN (IF dateFormat = "us" THEN shape.a ELSE shape.b) ELSE shape.mo

ResolvedDay ==
    IF shape.kind = "slash" THEN (IF dateFormat = "us" THEN shape.b ELSE shape.a) ELSE shape.d

TimeInRange == shape.h <= 23 /\ shape.mi <= 59 /\ shape.sec <= 59

\* Day d of month mo (1-based) of year y, a day beyond the end of the month
\* counting on into the next month: <<month, day>>.
RolledOver(y, mo, d) ==
    IF d <= DaysInMonth(y, mo - 1) THEN <<mo, d>> ELSE <<mo + 1, d - DaysInMonth(y, mo - 1)>>

\* C24: a slash, YYYY/MM/DD, dot or dash date yields an instant exactly when
\* its month is in 1..12 and its day in 1..31; a day beyond the end of the
\* month is accepted and is the day that many days into the next month.
C24_NoMonthLengthCheck ==
    (result # None /\ shape.kind \in {"slash", "slashYMD", "dot", "dash"}) =>
        /\ IsTV(result.date) <=> (ResolvedMonth \in 1..12 /\ ResolvedDay \in 1..31)
        /\ (IsTV(result.date) /\ TimeInRange) =>
              <<UTCFields(result.date).month, UTCFields(result.date).day>>
                  = RolledOver(UTCFields(result.date).year, ResolvedMonth, ResolvedDay)

\* '31.04.2024' was detected: it is 1 May 2024.
C24_Witness ==
    /\ result # None
    /\ input = "31.04.2024"
    /\ result.format = "Date (DD.MM.YYYY)"
    /\ result.date = CivilUTC(2024, 5, 1, 0, 0, 0, 0)

\* C27: for an input that is not a slash date N/N/YYYY[ hh:mm[:ss]],
\* detection under 'us' and under 'eu' gives the same instant and the same
\* label.
C27_ModeOnlyForSlashDates ==
    (result # None /\ shape.kind # "slash") =>
        /\ parseTimestamp(input, "us", now, hostOffset).date
               = parseTimestamp(input, "eu", now, hostOffset).date
        /\ parseTimestamp(input, "us", now, hostOffset).format
               = parseTimestamp(input, "eu", now, hostOffset).format
        /\ result.date = parseTimestamp(input, "us", now, hostOffset).date
        /\ result.format = parseTimestamp(input, "us", now, hostOffset).format

\* '1.12.2024' was detected under 'us' as 1 December, as it is under 'eu'.
C27_Witness ==
    /\ result # None
    /\ dateFormat = "us"
    /\ input = "1.12.2024"
    /\ result.format = "Date (DD.MM.YYYY)"
    /\ result.date = CivilUTC(2024, 12, 1, 0, 0, 0, 0)
    /\ parseTimestamp(input, "eu", now, hostOffset).date = result.date

\* C29: a slash, YYYY/MM/DD, dot or dash date with a year of four digits, a
\* month in 1..12 and a day within that month is the UTC instant of that
\* year, month and day, at 00:00:00 when no time is written, for the years
\* 0000..0099 too.
C29_YearAsWritten ==
    (/\ result # None
     /\ shape.kind \in {"slash", "slashYMD", "dot", "dash"}
     /\ ResolvedMonth \in 1..12
     /\ ResolvedDay >= 1
     /\ ResolvedDay <= DaysInMonth(shape.y, ResolvedMonth - 1)
     /\ TimeInRange) =>
        result.date = CivilUTC(shape.y, ResolvedMonth, ResolvedDay, shape.h, shape.mi,
                               shape.sec, 0)

\* The first position (1-based) at or behind from where t has the character c.
FirstAt(t, c, from) ==
    CHOOSE j \in from..Len(t) :
        Char(t, j) = c /\ \A k \in from..(j - 1) : Char(t, k) # c

\* The leftmost match of q in t, for a subsequence q of t: the positions of
\* the characters of q from the i-th on, each taken at its first occurrence
\* at or behind from.
RECURSIVE GreedyFrom(_, _, _, _)
GreedyThen(q, t, i, p) == <<p>> \o GreedyFrom(q, t, i + 1, p + 1)

GreedyFrom(q, t, i, from) ==
    IF i > Len(q) THEN <<>> ELSE GreedyThen(q, t, i, FirstAt(t, Char(q, i), from))

\* What the n-th matched character earns at the positions ps: 1, 3 more when
\* it follows the match before it directly, 5 more at the start of t or
\* behind a separator.
MatchPoints(t, ps, n) ==
    1 + (IF n > 1 /\ ps[n] = ps[n - 1] + 1 THEN 3 ELSE 0)
      + (IF ps[n] = 1 \/ Char(t, ps[n] - 1) \in {"/", "_", " ", "-"} THEN 5 ELSE 0)

RECURSIVE PointsUpTo(_, _, _)
PointsUpTo(t, ps, n) == IF n = 0 THEN 0 ELSE PointsUpTo(t, ps, n - 1) + MatchPoints(t, ps, n)

\* C23: when q is a subsequence of t, fuzzyScore(q, t) is the sum of the
\* points of the leftmost match, and lies between |q| and 9|q| - 3.
C23_ScoreOfGreedyMatch ==
    \A t \in {ToLowerCase(x) : x \in ScoredTexts}, q \in {ToLowerCase(tzQuery)} :
        (q # "" /\ IsSubsequence(q, t)) =>
            \A ps \in {GreedyFrom(q, t, 1, 1)} :
                /\ fuzzyScore(tzQuery, t) = PointsUpTo(t, ps, Len(q))
                /\ fuzzyScore(tzQuery, t) >= Len(q)
                /\ fuzzyScore(tzQuery, t) <= 9 * Len(q) - 3

\* 'SYD' was typed: in Australia/Sydney the leftmost match takes the s of
\* Australia, so the score is 1 + 1 + 4 and not that of the word Sydney; and
\* 'u' at the start of UTC reaches the upper bound 9 * 1 - 3.
C23_Witness ==
    /\ tzQuery = "SYD"
    /\ filteredTimezones = <<"Australia/Sydney">>
    /\ fuzzyScore("SYD", "Australia/Sydney") = 6
    /\ fuzzyScore("u", "UTC") = 6
    /\ fuzzyScore("ldn", "Europe/London") = 3 + 5

StartsWith(s, prefix) == Len(s) >= Len(prefix) /\ SubSeq(s, 1, Len(prefix)) = prefix

\* C28: a relative string never shows the count 0: it is 'just now' or it
\* counts at least one second, minute, hour, day, month or year.
C28_NoZeroCount ==
    outputs # None =>
        /\ ~StartsWith(outputs.relative, "0 ")
        /\ ~StartsWith(outputs.relative, "in 0 ")

\* C25: the weekday and the month printed in the RFC 2822 row are those of the
\* civil date in the selected zone, the date whose day, month and year the
\* same string prints.
C25_WeekdayOfCivilDate ==
    (outputs # None /\ currentDate # Null) =>
        \A local \in {TVAdd(currentDate, ZoneOffset(currentTimezone, currentDate) * 60000)} :
            /\ SubSeq(outputs.rfc, 1, 3) = RFC_DAYS[WeekDay(local.day) + 1]
            /\ SubSeq(outputs.rfc, 9, 11) = RFC_MONTHS[MonthFromDay(local.day) + 1]
            /\ SubSeq(outputs.rfc, 6, 7) = PadStart(IntToString(DateFromDay(local.day)), 2)

\* The eight output rows of the record out.
OutputRows(out) ==
    {out.unixS, out.unixMs, out.iso, out.isoTz, out.rfc, out.sql, out.relative, out.human}

\* C22: whenever no detection run is pending the display agrees with the
\* input text. For a blank or unrecognized text currentDate is null, the
\* detected label is the dash and all eight outputs are dashes; the note
\* 'Unrecognized format' is shown exactly when the text is non-blank and
\* unrecognized; the outputs show values exactly when currentDate is non-null.
C22_DisplayAgreesWithInput ==
    timers = {} =>
        \A r \in {parseTimestamp(input, dateFormat, now, hostOffset)} :
            /\ (Trim(input) = "" \/ r.date = Null) =>
                   /\ currentDate = Null
                   /\ detected = EmDash
                   /\ OutputRows(outputs) = {EmDash}
            /\ (feedback = "Unrecognized format") <=> (Trim(input) # "" /\ r.date = Null)
            /\ feedback \in {"", "Unrecognized format"}
            /\ (currentDate # Null) <=> (EmDash \notin OutputRows(outputs))
            /\ (currentDate = Null) <=> (OutputRows(outputs) = {EmDash})

\* A detection run of an unrecognized text has fired after an instant was
\* on display, and nothing is pending.
C22_Witness ==
    /\ timers = {}
    /\ input = "soon"
    /\ timerSeq >= 2
    /\ feedback = "Unrecognized format"
    /\ outputs = grayOut

\* What a selection of a timezone leaves alone, and what it renders again.
SelectionFrame ==
    /\ currentDate' = currentDate
    /\ input' = input
    /\ detected' = detected
    /\ dateFormat' = dateFormat
    /\ IF currentDate = Null
       THEN outputs' = outputs
       ELSE /\ outputs'.unixS = outputs.unixS
            /\ outputs'.unixMs = outputs.unixMs
            /\ outputs'.iso = outputs.iso
            /\ outputs'.isoTz = formatISOWithOffset(currentDate, currentTimezone')
            /\ outputs'.rfc = formatRFC2822(currentDate, currentTimezone')
            /\ outputs'.sql = formatSQL(currentDate, currentTimezone')
            /\ outputs'.human = formatHuman(currentDate, currentTimezone')

C30_HighlightAndSelection ==
    /\ [](highlightedIndex \in (0 - 1)..(Len(tzItems) - 1))
    /\ [][(currentTimezone' # currentTimezone) => (tzOpen /\ Len(filteredTimezones) > 0)]_vars

====
